---- MODULE Spec2Model ----
(***************************************************************************)
(* Backtest engine of the LongEntry market scanner                         *)
(* (backend/app/engines/backtest.py): the trade simulator simulate_trades, *)
(* the M5 drill-down, the valid-entry-hour filter and the parameter sweep. *)
(*                                                                         *)
(* Numbers.  The program computes in float64.  The model computes in exact *)
(* rationals: prices, percentages and per-trade results are small          *)
(* fractions of integers (records [n, d]); the accumulators (equity, peak, *)
(* drawdown, gross profit/loss) are fractions of arbitrary-size naturals   *)
(* (digit sequences), because their denominators grow with every trade.    *)
(* Prices are in integer price points, percentages in percent.             *)
(***************************************************************************)
EXTENDS Integers, Sequences, FiniteSets, TLC

(***************************************************************************)
(* Small exact fractions (numerator and denominator fit a machine integer) *)
(***************************************************************************)
Abs(x) == IF x < 0 THEN -x ELSE x

RECURSIVE Gcd(_, _)
Gcd(a, b) == IF b = 0 THEN a ELSE Gcd(b, a % b)

\* the fraction n/d in lowest terms with a positive denominator
Frac(n, d) ==
    LET s == IF d < 0 THEN -1 ELSE 1
        g == Gcd(Abs(n), Abs(d))
    IN  [n |-> (s * n) \div g, d |-> (s * d) \div g]

FInt(k) == [n |-> k, d |-> 1]
FAdd(a, b) == Frac(a.n * b.d + b.n * a.d, a.d * b.d)
FSub(a, b) == Frac(a.n * b.d - b.n * a.d, a.d * b.d)
FMul(a, b) == Frac(a.n * b.n, a.d * b.d)
FDiv(a, b) == Frac(a.n * b.d, a.d * b.n)
FNeg(a) == [n |-> -a.n, d |-> a.d]
FAbs(a) == [n |-> Abs(a.n), d |-> a.d]
FLeq(a, b) == a.n * b.d <= b.n * a.d
FLess(a, b) == a.n * b.d < b.n * a.d
FGeq(a, b) == FLeq(b, a)

(***************************************************************************)
(* Naturals of arbitrary size: little-endian digit sequences in base Base, *)
(* without leading zeros (zero is the empty sequence).                     *)
(***************************************************************************)
Base == 100 * 100

RECURSIVE BigOfNat(_)
BigOfNat(k) == IF k = 0 THEN <<>> ELSE <<k % Base>> \o BigOfNat(k \div Base)

RECURSIVE BigTrim(_)
BigTrim(a) ==
    IF a = <<>> THEN <<>>
    ELSE IF a[Len(a)] = 0 THEN BigTrim(SubSeq(a, 1, Len(a) - 1)) ELSE a

RECURSIVE BigAddC(_, _, _)
BigAddC(a, b, c) ==
    IF a = <<>> /\ b = <<>> THEN (IF c = 0 THEN <<>> ELSE <<c>>)
    ELSE LET x == IF a = <<>> THEN 0 ELSE Head(a)
             y == IF b = <<>> THEN 0 ELSE Head(b)
             t == x + y + c
         IN  <<t % Base>> \o BigAddC(IF a = <<>> THEN <<>> ELSE Tail(a),
                                     IF b = <<>> THEN <<>> ELSE Tail(b),
                                     t \div Base)
BigAdd(a, b) == BigAddC(a, b, 0)

\* a - b for a >= b
RECURSIVE BigSubC(_, _, _)
BigSubC(a, b, c) ==
    IF a = <<>> THEN <<>>
    ELSE LET y == IF b = <<>> THEN 0 ELSE Head(b)
             t == Head(a) - y - c
         IN  <<IF t < 0 THEN t + Base ELSE t>>
             \o BigSubC(Tail(a), IF b = <<>> THEN <<>> ELSE Tail(b),
                        IF t < 0 THEN 1 ELSE 0)
BigSub(a, b) == BigTrim(BigSubC(a, b, 0))

\* a * k for a digit k < Base
RECURSIVE BigMulDigit(_, _, _)
BigMulDigit(a, k, c) ==
    IF a = <<>> THEN (IF c = 0 THEN <<>> ELSE <<c>>)
    ELSE LET t == Head(a) * k + c
         IN  <<t % Base>> \o BigMulDigit(Tail(a), k, t \div Base)

RECURSIVE BigMul(_, _)
BigMul(a, b) ==
    IF a = <<>> \/ b = <<>> THEN <<>>
    ELSE BigAdd(BigMulDigit(a, Head(b), 0),
                LET r == BigMul(a, Tail(b)) IN IF r = <<>> THEN <<>> ELSE <<0>> \o r)

\* -1, 0, 1 as a < b, a = b, a > b
RECURSIVE BigCmpFrom(_, _, _)
BigCmpFrom(a, b, i) ==
    IF i = 0 THEN 0
    ELSE IF a[i] < b[i] THEN -1
    ELSE IF a[i] > b[i] THEN 1
    ELSE BigCmpFrom(a, b, i - 1)
BigCmp(a, b) ==
    IF Len(a) < Len(b) THEN -1
    ELSE IF Len(a) > Len(b) THEN 1
    ELSE BigCmpFrom(a, b, Len(a))

\* the largest digit q in lo..hi with b * q <= r (b * lo <= r is given)
RECURSIVE BigQuotDigit(_, _, _, _)
BigQuotDigit(r, b, lo, hi) ==
    IF lo = hi THEN lo
    ELSE LET mid == (lo + hi + 1) \div 2
         IN  IF BigCmp(BigMulDigit(b, mid, 0), r) <= 0
             THEN BigQuotDigit(r, b, mid, hi)
             ELSE BigQuotDigit(r, b, lo, mid - 1)

\* long division: <<quotient, remainder>> of a by b > 0
RECURSIVE BigDivMod(_, _)
BigDivMod(a, b) ==
    IF a = <<>> THEN <<(<<>>), (<<>>)>>
    ELSE LET hi == BigDivMod(Tail(a), b)
             r == BigTrim(<<Head(a)>> \o hi[2])
             q == IF BigCmp(r, b) < 0 THEN 0 ELSE BigQuotDigit(r, b, 1, Base - 1)
         IN  <<BigTrim(<<q>> \o hi[1]), BigSub(r, BigMulDigit(b, q, 0))>>

RECURSIVE BigToNat(_)
BigToNat(a) == IF a = <<>> THEN 0 ELSE Head(a) + Base * BigToNat(Tail(a))

(***************************************************************************)
(* Exact fractions of arbitrary size: [s, n, d] is s * n / d with sign s   *)
(* in {-1, 0, 1}, n and d digit sequences, d > 0.  Not kept in lowest      *)
(* terms: compare with QCmp, never with =.                                 *)
(***************************************************************************)
QOfFrac(f) ==
    [s |-> IF f.n < 0 THEN -1 ELSE IF f.n = 0 THEN 0 ELSE 1,
     n |-> BigOfNat(Abs(f.n)), d |-> BigOfNat(f.d)]
QInt(k) == QOfFrac(FInt(k))
QNeg(a) == [s |-> -a.s, n |-> a.n, d |-> a.d]
QMul(a, b) ==
    IF a.s * b.s = 0 THEN QInt(0)
    ELSE [s |-> a.s * b.s, n |-> BigMul(a.n, b.n), d |-> BigMul(a.d, b.d)]
QDiv(a, b) ==
    IF a.s = 0 THEN QInt(0)
    ELSE [s |-> a.s * b.s, n |-> BigMul(a.n, b.d), d |-> BigMul(a.d, b.n)]
QAdd(a, b) ==
    IF a.s = 0 THEN b
    ELSE IF b.s = 0 THEN a
    ELSE LET same == a.d = b.d
             x == IF same THEN a.n ELSE BigMul(a.n, b.d)
             y == IF same THEN b.n ELSE BigMul(b.n, a.d)
             d == IF same THEN a.d ELSE BigMul(a.d, b.d)
             c == BigCmp(x, y)
         IN  IF a.s = b.s THEN [s |-> a.s, n |-> BigAdd(x, y), d |-> d]
             ELSE IF c = 0 THEN QInt(0)
             ELSE IF c > 0 THEN [s |-> a.s, n |-> BigSub(x, y), d |-> d]
             ELSE [s |-> b.s, n |-> BigSub(y, x), d |-> d]
QSub(a, b) == QAdd(a, QNeg(b))
\* -1, 0, 1 as a < b, a = b, a > b
QCmp(a, b) ==
    IF a.s # b.s THEN (IF a.s < b.s THEN -1 ELSE 1)
    ELSE IF a.s = 0 THEN 0
    ELSE IF a.d = b.d THEN a.s * BigCmp(a.n, b.n)
    ELSE a.s * BigCmp(BigMul(a.n, b.d), BigMul(b.n, a.d))
QGreater(a, b) == QCmp(a, b) > 0
QEq(a, b) == QCmp(a, b) = 0

\* round(a, k) of Python for k decimals, as the integer a * 10^k rounded half to
\* even (scale is 10^k)
QRound(a, scale) ==
    IF a.s = 0 THEN 0
    ELSE LET qr == BigDivMod(BigMulDigit(a.n, scale, 0), a.d)
             q == BigToNat(qr[1])
             c == BigCmp(BigMulDigit(qr[2], 2, 0), a.d)
             up == c > 0 \/ (c = 0 /\ q % 2 = 1)
         IN  a.s * (IF up THEN q + 1 ELSE q)


(***************************************************************************)
(* Bars.  A time is a count of 5-minute slots since midnight of day 0; an  *)
(* H1 bar opens on the hour.  hour and date are what _prepare_arrays       *)
(* derives from open_time.                                                 *)
(***************************************************************************)
HourOf(t) == (t \div 12) % 24
DateOf(t) == t \div (12 * 24)
TimeAt(day, hour) == (day * 24 + hour) * 12

SL_GRID == <<Frac(3, 10), Frac(1, 2), Frac(3, 4), FInt(1), Frac(5, 4), Frac(3, 2), FInt(2)>>
TP_GRID == <<Frac(1, 2), FInt(1), Frac(3, 2), FInt(2), Frac(5, 2), FInt(3), FInt(4)>>

(***************************************************************************)
(* _resolve_ambiguity_with_m5: "sl", "tp" or "None".  m5_arrays is NoM5    *)
(* (Python's None) or M5(rows), rows the M5 bars [t, low, high] in array   *)
(* order.                                                                  *)
(***************************************************************************)
NoM5 == [is_none |-> TRUE, rows |-> <<>>]
M5(rows) == [is_none |-> FALSE, rows |-> rows]

RECURSIVE WalkM5(_, _, _, _)
WalkM5(m5_arrays, indices, sl_price, tp_price) ==
    IF indices = <<>> THEN "None"
    ELSE LET low_m5 == FInt(m5_arrays.rows[Head(indices)].low)
             high_m5 == FInt(m5_arrays.rows[Head(indices)].high)
             sl_hit == FLeq(low_m5, sl_price)
             tp_hit == FGeq(high_m5, tp_price)
         IN  IF sl_hit /\ tp_hit THEN "sl"
             ELSE IF sl_hit THEN "sl"
             ELSE IF tp_hit THEN "tp"
             ELSE WalkM5(m5_arrays, Tail(indices), sl_price, tp_price)

\* the mask with the hour's end included
RECURSIVE MaskIndicesInclusive(_, _, _, _)
MaskIndicesInclusive(m5_arrays, h1_start, h1_end, i) ==
    IF i > Len(m5_arrays.rows) THEN <<>>
    ELSE (IF m5_arrays.rows[i].t >= h1_start /\ m5_arrays.rows[i].t <= h1_end
          THEN <<i>> ELSE <<>>)
         \o MaskIndicesInclusive(m5_arrays, h1_start, h1_end, i + 1)

RECURSIVE MaskIndices(_, _, _, _)
MaskIndices(m5_arrays, h1_start, h1_end, i) ==
    IF i > Len(m5_arrays.rows) THEN <<>>
    ELSE (IF m5_arrays.rows[i].t >= h1_start /\ m5_arrays.rows[i].t < h1_end
          THEN <<i>> ELSE <<>>)
         \o MaskIndices(m5_arrays, h1_start, h1_end, i + 1)

ResolveAmbiguity(m5_arrays, h1_open_time, sl_price, tp_price) ==
    IF m5_arrays.is_none THEN "None"
    ELSE LET indices == MaskIndices(m5_arrays, h1_open_time, h1_open_time + 12, 1)
         IN  IF Len(indices) = 0 THEN "None"
             ELSE WalkM5(m5_arrays, indices, sl_price, tp_price)

(***************************************************************************)
(* simulate_trades.  A simulation state st holds the locals of the         *)
(* function; P holds its arguments [entry_hour, sl_pct, tp_pct, spread,    *)
(* m5_arrays].  st.log is a history of the trades closed so far, one       *)
(* record per close, kept for stating properties; the code keeps no log.   *)
(***************************************************************************)
half_spread(P) == FDiv(P.spread, FInt(2))
sl_mult(P) == FSub(FInt(1), FDiv(P.sl_pct, FInt(100)))
tp_mult(P) == FAdd(FInt(1), FDiv(P.tp_pct, FInt(100)))

InitState ==
    [wins |-> 0, losses |-> 0,
     gross_profit |-> QInt(0), gross_loss |-> QInt(0),
     equity |-> QInt(100), peak_equity |-> QInt(100), max_drawdown |-> QInt(0),
     in_position |-> FALSE,
     entry_price |-> FInt(0), sl_price |-> FInt(0), tp_price |-> FInt(0),
     exit_spread_pct |-> FInt(0), entry_bar_idx |-> -1,
     entered_dates |-> {},
     opened |-> 0, log |-> <<>>]

\* the bookkeeping every closing branch repeats: the win or loss counter, the
\* gross sum, the equity product, in_position = False
CloseTrade(st, trade_pnl_pct, win, how, j) ==
    [st EXCEPT
        !.wins = IF win THEN @ + 1 ELSE @,
        !.losses = IF win THEN @ ELSE @ + 1,
        !.gross_profit = IF win THEN QAdd(@, QOfFrac(trade_pnl_pct)) ELSE @,
        !.gross_loss = IF win THEN @ ELSE QAdd(@, QOfFrac(FAbs(trade_pnl_pct))),
        !.equity = QMul(@, QOfFrac(FAdd(FInt(1), FDiv(trade_pnl_pct, FInt(100))))),
        !.in_position = FALSE,
        !.log = Append(@, [how |-> how, pnl |-> trade_pnl_pct, win |-> win,
                           entry_bar |-> st.entry_bar_idx, exit_bar |-> j,
                           entry_price |-> st.entry_price,
                           exit_spread_pct |-> st.exit_spread_pct])]

\* "if equity > peak_equity: ...; dd = ...; if dd > max_drawdown: ..."
UpdateDrawdown(st) ==
    LET peak == IF QGreater(st.equity, st.peak_equity) THEN st.equity ELSE st.peak_equity
        dd == QMul(QDiv(QSub(peak, st.equity), peak), QInt(100))
    IN  [st EXCEPT !.peak_equity = peak,
                   !.max_drawdown = IF QGreater(dd, @) THEN dd ELSE @]

\* realized percentage of a fill at price px
FillPnl(st, px) ==
    FSub(FMul(FDiv(FSub(px, st.entry_price), st.entry_price), FInt(100)),
         st.exit_spread_pct)
NominalSl(st, P) == FSub(FNeg(P.sl_pct), st.exit_spread_pct)
NominalTp(st, P) == FSub(P.tp_pct, st.exit_spread_pct)

\* no gap detection: a bar that opens beyond a level is left to the intrabar check
GapCheckMissing(st, b, j) == st

\* lines 236-260: the bar opens beyond the stop or the target
GapCheck(st, b, j) ==
    IF j > st.entry_bar_idx
    THEN IF FLeq(FInt(b.open), st.sl_price)
         THEN CloseTrade(st, FillPnl(st, FInt(b.open)), FALSE, "gap_sl", j)
         ELSE IF FGeq(FInt(b.open), st.tp_price)
         THEN CloseTrade(st, FillPnl(st, FInt(b.open)), TRUE, "gap_tp", j)
         ELSE st
    ELSE st

\* lines 264-303 and 324-374 without the drawdown update: stop / target inside
\* the bar; kind tells the bar apart in the log ("" on a later bar, "entry_" on
\* the entry bar)
TouchCheck(st, b, j, P, kind) ==
    LET sl_hit == FLeq(FInt(b.low), st.sl_price)
        tp_hit == FGeq(FInt(b.high), st.tp_price)
    IN  IF sl_hit /\ tp_hit
        THEN IF ResolveAmbiguity(P.m5_arrays, b.t, st.sl_price, st.tp_price) = "tp"
             THEN CloseTrade(st, NominalTp(st, P), TRUE, kind \o "amb_tp", j)
             ELSE CloseTrade(st, NominalSl(st, P), FALSE, kind \o "amb_sl", j)
        ELSE IF sl_hit THEN CloseTrade(st, NominalSl(st, P), FALSE, kind \o "sl", j)
        ELSE IF tp_hit THEN CloseTrade(st, NominalTp(st, P), TRUE, kind \o "tp", j)
        ELSE st

\* the stop and the target are not checked inside the bar, only at its open
ManagePositionGapOnly(st, b, j, P) ==
    LET g == GapCheck(st, b, j)
    IN  IF ~g.in_position THEN UpdateDrawdown(g) ELSE g

\* lines 233-311: a position open at the start of bar j
ManagePosition(st, b, j, P) ==
    LET g == GapCheck(st, b, j)
        i == IF g.in_position THEN TouchCheck(g, b, j, P, "") ELSE g
    IN  IF ~i.in_position THEN UpdateDrawdown(i) ELSE i

\* the entry condition without the hour filter
CanEnterAnyHour(st, b, P) ==
    /\ ~st.in_position
    /\ DateOf(b.t) \notin st.entered_dates

\* the entry condition without the position slot
CanEnterWhileOpen(st, b, P) ==
    /\ HourOf(b.t) = P.entry_hour
    /\ DateOf(b.t) \notin st.entered_dates

\* line 314
CanEnter(st, b, P) ==
    /\ ~st.in_position
    /\ HourOf(b.t) = P.entry_hour
    /\ DateOf(b.t) \notin st.entered_dates

\* lines 315-321
OpenPosition(st, b, j, P) ==
    LET entry_price == FAdd(FInt(b.open), half_spread(P))
    IN  [st EXCEPT !.entered_dates = @ \cup {DateOf(b.t)},
                   !.entry_price = entry_price,
                   !.sl_price = FMul(entry_price, sl_mult(P)),
                   !.tp_price = FMul(entry_price, tp_mult(P)),
                   !.exit_spread_pct = FMul(FDiv(half_spread(P), entry_price), FInt(100)),
                   !.entry_bar_idx = j,
                   !.in_position = TRUE,
                   !.opened = @ + 1]

\* the entry-candle closes without their drawdown updates
EntryBarCheckNoDrawdown(st, b, j, P) == TouchCheck(st, b, j, P, "entry_")

\* lines 323-374: stop / target on the entry candle itself, each closing branch
\* followed by its own drawdown update
EntryBarCheck(st, b, j, P) ==
    LET c == TouchCheck(st, b, j, P, "entry_")
    IN  IF ~c.in_position THEN UpdateDrawdown(c) ELSE c

\* one iteration of "for j in range(n)"
LoopBody(st, b, j, P) ==
    LET m == IF st.in_position THEN ManagePosition(st, b, j, P) ELSE st
    IN  IF CanEnter(m, b, P) THEN EntryBarCheck(OpenPosition(m, b, j, P), b, j, P) ELSE m

\* the trailing trade dropped from the statistics, as the docstring has it
ForceCloseExcluded(st, close_price, n) == [st EXCEPT !.in_position = FALSE]

\* lines 376-394: a position still open after the last bar, n bars processed
ForceClose(st, close_price, n) ==
    IF st.in_position /\ n > 0
    THEN LET trade_pnl_pct == FillPnl(st, FInt(close_price))
         IN  UpdateDrawdown(CloseTrade(st, trade_pnl_pct, FGeq(trade_pnl_pct, FInt(0)),
                                       "end", n))
    ELSE st

\* _empty_result; the floats of a result are kept as the integers
\* total_return * 100, win_rate * 10, profit_factor * 100, max_drawdown * 100
EmptyResult ==
    [total_return |-> 0, win_rate |-> 0, profit_factor |-> 0, max_drawdown |-> 0,
     total_trades |-> 0, wins |-> 0, losses |-> 0]

\* the result with profit_factor 0.0 when there is no loss, as in _empty_result
MakeResultNoSentinel(st) ==
    LET total_trades == st.wins + st.losses
    IN  [total_return |-> QRound(QSub(st.equity, QInt(100)), 100),
         win_rate |-> IF total_trades > 0
                      THEN QRound(QOfFrac(Frac(st.wins * 100, total_trades)), 10)
                      ELSE 0,
         profit_factor |-> IF st.gross_loss.s > 0
                           THEN QRound(QDiv(st.gross_profit, st.gross_loss), 100)
                           ELSE 0,
         max_drawdown |-> QRound(st.max_drawdown, 100),
         total_trades |-> total_trades,
         wins |-> st.wins,
         losses |-> st.losses]

\* lines 396-409
MakeResult(st) ==
    LET total_trades == st.wins + st.losses
        total_return == QSub(st.equity, QInt(100))
    IN  [total_return |-> QRound(total_return, 100),
         win_rate |-> IF total_trades > 0
                      THEN QRound(QOfFrac(Frac(st.wins * 100, total_trades)), 10)
                      ELSE 0,
         profit_factor |-> IF st.gross_loss.s > 0
                           THEN QRound(QDiv(st.gross_profit, st.gross_loss), 100)
                           ELSE 9900,
         max_drawdown |-> QRound(st.max_drawdown, 100),
         total_trades |-> total_trades,
         wins |-> st.wins,
         losses |-> st.losses]


\* lines 171-409: the whole call on a series given as a sequence of rows
\* [t, open, high, low, close] (the arrays of _prepare_arrays, hour and date
\* being HourOf(t) and DateOf(t))
RECURSIVE SimulateFrom(_, _, _, _)
SimulateFrom(arrays, params, st, j) ==
    IF j >= Len(arrays) THEN st
    ELSE SimulateFrom(arrays, params, LoopBody(st, arrays[j + 1], j, params), j + 1)

simulate_trades(arrays, entry_hour, sl_pct, tp_pct, spread, m5_arrays) ==
    LET n == Len(arrays)
        params == [entry_hour |-> entry_hour, sl_pct |-> sl_pct, tp_pct |-> tp_pct,
                   spread |-> spread, m5_arrays |-> m5_arrays]
    IN  IF n = 0 THEN EmptyResult
        ELSE MakeResult(ForceClose(SimulateFrom(arrays, params, InitState, 0),
                                   arrays[n].close, n))

\* lines 53-73
DEFAULT_SESSION == <<8, 20>>
SESSION_HOURS(symbol) ==
    CASE symbol \in {"XAUUSD", "XAGUSD"} -> <<9, 20>>
      [] symbol \in {"US500", "US100", "US30"} -> <<10, 20>>
      [] symbol \in {"GER40", "UK100", "FRA40", "EU50", "SPN35", "N25"} -> <<9, 17>>
      [] symbol = "JP225" -> <<2, 16>>
      [] symbol = "HK50" -> <<3, 16>>
      [] symbol = "AUS200" -> <<1, 16>>
      [] OTHER -> DEFAULT_SESSION

\* an ascending list of a set of integers (a groupby index, sorted())
RECURSIVE SortedList(_)
SortedList(S) ==
    IF S = {} THEN <<>>
    ELSE LET m == CHOOSE x \in S : \A y \in S : x <= y
         IN  <<m>> \o SortedList(S \ {m})

ListSet(seq) == {seq[i] : i \in 1..Len(seq)}

\* the comparison with the threshold total_days * 0.5, strict
StrictlyAboveThreshold(count, total_days) ==
    FLess(FMul(FInt(total_days), Frac(1, 2)), FInt(count))

\* line 85: hour_counts >= threshold, threshold = total_days * 0.5
AtLeastThreshold(count, total_days) ==
    FGeq(FInt(count), FMul(FInt(total_days), Frac(1, 2)))

\* lines 76-91
get_valid_entry_hours(h1, symbol) ==
    LET rows == 1..Len(h1)
        total_days == Cardinality({DateOf(h1[i].t) : i \in rows})
        hour_index == SortedList({HourOf(h1[i].t) : i \in rows})
        hour_counts(h) == Cardinality({DateOf(h1[i].t) : i \in {k \in rows : HourOf(h1[k].t) = h}})
        OverThreshold(h) == AtLeastThreshold(hour_counts(h), total_days)
        valid == SelectSeq(hour_index, OverThreshold)
        start_h == SESSION_HOURS(symbol)[1]
        end_h == SESSION_HOURS(symbol)[2]
        InSession(h) == start_h <= h /\ h <= end_h
    IN  SortedList(ListSet(SelectSeq(valid, InSession)))

\* a later combination replaces the best one on a tie as well
ImprovesOrTies(res, best_return) == res.total_return >= best_return

\* line 456: result["total_return"] > best_return
Improves(res, best_return) == res.total_return > best_return

\* best is None
NoBest == [is_none |-> TRUE]

\* lines 449-451 and 457-465: the k-th combination of the three nested loops,
\* k counted from 0, and the dict made of it
ComboOf(valid_hours, k) ==
    LET per_hour == Len(SL_GRID) * Len(TP_GRID)
    IN  [entry_hour |-> valid_hours[(k \div per_hour) + 1],
         sl_pct |-> SL_GRID[((k % per_hour) \div Len(TP_GRID)) + 1],
         tp_pct |-> TP_GRID[(k % Len(TP_GRID)) + 1]]

\* the sweep is not running
NoSweep == [pc |-> "off"]

(***************************************************************************)
(* The simulation as a state machine: one call of simulate_trades on a bar *)
(* series that is read bar by bar.  The bars are inputs: each iteration    *)
(* draws bar j (open, high, low) with low <= open <= high and a time after *)
(* the previous bar's; closes[n-1], the only close the function reads, is  *)
(* drawn at the end of the data within the last bar's range.               *)
(***************************************************************************)
MaxBars == 3
PriceLevels == {980, 1000, 1020}
HourSet == {9, 10}
EntryHours == {10}
SlSet == {FInt(2)}
TpSet == {FInt(2)}
SpreadSet == {FInt(0), FInt(2)}
M5Set == {NoM5, M5(<<[t |-> TimeAt(0, 10), low |-> 1000, high |-> 1020]>>)}

VARIABLES
    P,            \* the arguments entry_hour, sl_pct, tp_pct, spread, m5_arrays
    st,           \* the locals of simulate_trades
    j,            \* the loop index: bars 0 .. j-1 have been processed
    bar,          \* the bar processed last (hours[j], opens[j], highs[j], lows[j])
    close_price,  \* closes[n-1], read at the end of the data
    hours_seen,   \* history: the hours-of-day of the bars processed so far
    pc,           \* "loop" inside the for loop, "done" after return
    result,       \* the returned dict
    sweep,        \* the arguments, locals and return value of sweep_parameters
    markets,      \* table markets: symbol -> category, the symbols in the universe
    wa,           \* table weekly_analysis: a set of rows
    settings,     \* app.config.settings
    trades,       \* table trades: total and wins of the last 60 days
    week,         \* the Monday of the current week, as a week number
    op            \* history: the operation that ran last

vars ==
    <<P, st, j, bar, close_price, hours_seen, pc, result, sweep,
      markets, wa, settings, trades, week, op>>

dbvars == <<markets, wa, settings, trades, week, op>>

\* no database is attached
DbOff ==
    /\ markets = <<>>
    /\ wa = {}
    /\ settings = <<>>
    /\ trades = <<>>
    /\ week = 0
    /\ op = "off"

NoBar == [t |-> -1, open |-> 0, high |-> 0, low |-> 0]

Params ==
    [entry_hour : EntryHours, sl_pct : SlSet, tp_pct : TpSet, spread : SpreadSet,
     m5_arrays : M5Set]

\* the times bar j may open at: strictly after the previous bar, on the hour,
\* at an hour of day in hours
NextTimes(prev, hours) ==
    IF prev.t < 0 THEN {TimeAt(0, h) : h \in hours}
    ELSE {TimeAt(DateOf(prev.t), h) : h \in {x \in hours : x > HourOf(prev.t)}}
         \cup {TimeAt(DateOf(prev.t) + 1, h) : h \in hours}

BarsAfter(prev, hours) ==
    {b \in [t : NextTimes(prev, hours), open : PriceLevels, high : PriceLevels,
            low : PriceLevels] :
        b.low <= b.open /\ b.open <= b.high}

Init ==
    /\ P \in Params
    /\ st = InitState
    /\ j = 0
    /\ bar = NoBar
    /\ close_price = 0
    /\ hours_seen = {}
    /\ pc = "loop"
    /\ result = "none"
    /\ sweep = NoSweep
    /\ DbOff

\* "if n == 0: return _empty_result()"
ReturnEmpty ==
    /\ pc = "loop" /\ j = 0
    /\ result' = EmptyResult
    /\ pc' = "done"
    /\ UNCHANGED <<P, st, j, bar, close_price, hours_seen, sweep>>
    /\ UNCHANGED dbvars

\* one iteration of the loop on bar b
Iterate(b) ==
    /\ bar' = b
    /\ st' = LoopBody(st, b, j, P)
    /\ hours_seen' = hours_seen \cup {HourOf(b.t)}
    /\ j' = j + 1
    /\ UNCHANGED <<P, close_price, pc, result, sweep>>
    /\ UNCHANGED dbvars

\* the next bar of the series
ProcessBar ==
    /\ pc = "loop" /\ j < MaxBars
    /\ \E b \in BarsAfter(bar, HourSet) : Iterate(b)

\* the series ends after j > 0 bars: the force-close and the result
Return ==
    /\ pc = "loop" /\ j > 0
    /\ \E c \in {x \in PriceLevels : bar.low <= x /\ x <= bar.high} :
         /\ close_price' = c
         /\ st' = ForceClose(st, c, j)
         /\ result' = MakeResult(st')
    /\ pc' = "done"
    /\ UNCHANGED <<P, j, bar, hours_seen, sweep>>
    /\ UNCHANGED dbvars

Next == ReturnEmpty \/ ProcessBar \/ Return

Spec == Init /\ [][Next]_vars

\* the same machine with a spread above 2 * tp_pct percent of the price
WideSpreads == {FInt(2), FInt(12)}
TightTps == {Frac(1, 2)}

InitSpread ==
    /\ P \in [entry_hour : EntryHours, sl_pct : SlSet, tp_pct : TightTps,
              spread : WideSpreads, m5_arrays : {NoM5}]
    /\ st = InitState
    /\ j = 0
    /\ bar = NoBar
    /\ close_price = 0
    /\ hours_seen = {}
    /\ pc = "loop"
    /\ result = "none"
    /\ sweep = NoSweep
    /\ DbOff

SpecSpread == InitSpread /\ [][Next]_vars


(***************************************************************************)
(* The same machine with M5 data of every shape, on a series of one bar a  *)
(* day at the entry hour: M5 arrays of one or two rows, in ascending       *)
(* open_time as _fetch_m5_candles loads them, around the hour of day 1,    *)
(* 10:00 (the row before the hour, the first and the last row of the hour, *)
(* the first row of the next hour).                                        *)
(***************************************************************************)
M5Lens == {1, 2}
M5Times ==
    {TimeAt(1, 10) - 1, TimeAt(1, 10), TimeAt(1, 10) + 11, TimeAt(1, 10) + 12}
M5Bars == [t : M5Times, low : {980, 1000}, high : {1000, 1020}]
RECURSIVE M5SeqsOfLen(_)
M5SeqsOfLen(n) ==
    IF n = 0 THEN {<<>>}
    ELSE {Append(q, b) : q \in M5SeqsOfLen(n - 1), b \in M5Bars}
M5Arrays ==
    {q \in UNION {M5SeqsOfLen(n) : n \in M5Lens} :
        \A i \in 1..(Len(q) - 1) : q[i].t < q[i + 1].t}

ParamsM5 ==
    [entry_hour : EntryHours, sl_pct : {FInt(2)}, tp_pct : {FInt(2)}, spread : {FInt(0)},
     m5_arrays : {NoM5} \cup {M5(q) : q \in M5Arrays}]

InitM5 ==
    /\ P \in ParamsM5
    /\ st = InitState
    /\ j = 0
    /\ bar = NoBar
    /\ close_price = 0
    /\ hours_seen = {}
    /\ pc = "loop"
    /\ result = "none"
    /\ sweep = NoSweep
    /\ DbOff

ProcessBarM5 ==
    /\ pc = "loop" /\ j < MaxBars - 1
    /\ \E b \in BarsAfter(bar, EntryHours) : Iterate(b)

NextM5 == ReturnEmpty \/ ProcessBarM5 \/ Return

SpecM5 == InitM5 /\ [][NextM5]_vars


(***************************************************************************)
(* sweep_parameters as a state machine: one call on an H1 series of up to  *)
(* MaxBars rows in ascending open_time, one step for each combination of   *)
(* the three nested loops.  The rows open on three days at hours on both   *)
(* sides of the session windows' bounds; a row rises 2% from its open, or, *)
(* at 10:00, falls 2% from it.                                             *)
(***************************************************************************)
SweepDays == {0, 1, 2}
SweepHours == {9, 10, 20, 21}
FallHours == {10}
Rise == [open |-> 1000, high |-> 1020, low |-> 1000, close |-> 1020]
Fall == [open |-> 1000, high |-> 1000, low |-> 980, close |-> 980]
SweepSymbols == {"US500", "EURUSD"}
SweepSpreads == {FInt(2)}

SweepRows ==
    {[t |-> TimeAt(d, h), open |-> q.open, high |-> q.high, low |-> q.low,
      close |-> q.close] :
        d \in SweepDays, h \in SweepHours, q \in {Rise}}
    \cup
    {[t |-> TimeAt(d, h), open |-> q.open, high |-> q.high, low |-> q.low,
      close |-> q.close] :
        d \in SweepDays, h \in FallHours, q \in {Fall}}

H1Series ==
    {q \in UNION {[1..n -> SweepRows] : n \in 1..MaxBars} :
        \A i \in 1..(Len(q) - 1) : q[i].t < q[i + 1].t}

\* the call: the arguments h1, spread, symbol, m5
InitSweep ==
    /\ P = "none"
    /\ st = InitState
    /\ j = 0
    /\ bar = NoBar
    /\ close_price = 0
    /\ hours_seen = {}
    /\ pc = "off"
    /\ result = "none"
    /\ DbOff
    /\ \E h1 \in H1Series, spread \in SweepSpreads, symbol \in SweepSymbols :
         sweep = [pc |-> "start", h1 |-> h1, spread |-> spread, symbol |-> symbol,
                  m5_arrays |-> NoM5, valid_hours |-> <<>>, best |-> NoBest,
                  best_return |-> -999999 * 100, combos_tested |-> 0,
                  ret |-> "none"]

simvars == <<P, st, j, bar, close_price, hours_seen, pc, result>>

\* lines 438-440: no valid hour, return None
SweepNone ==
    /\ sweep.pc = "start"
    /\ get_valid_entry_hours(sweep.h1, sweep.symbol) = <<>>
    /\ sweep' = [sweep EXCEPT !.pc = "done", !.ret = [is_none |-> TRUE]]
    /\ UNCHANGED simvars
    /\ UNCHANGED dbvars

\* the loops start on the combos_tested a previous call left behind
SweepBeginKeepsCount ==
    /\ sweep.pc = "start"
    /\ get_valid_entry_hours(sweep.h1, sweep.symbol) # <<>>
    /\ sweep' = [sweep EXCEPT !.pc = "loop",
                              !.valid_hours = get_valid_entry_hours(sweep.h1, sweep.symbol),
                              !.best = NoBest,
                              !.best_return = -999999 * 100]
    /\ UNCHANGED simvars
    /\ UNCHANGED dbvars

\* lines 438-447: some valid hour, the loops start
SweepBegin ==
    /\ sweep.pc = "start"
    /\ get_valid_entry_hours(sweep.h1, sweep.symbol) # <<>>
    /\ sweep' = [sweep EXCEPT !.pc = "loop",
                              !.valid_hours = get_valid_entry_hours(sweep.h1, sweep.symbol),
                              !.best = NoBest,
                              !.best_return = -999999 * 100,
                              !.combos_tested = 0]
    /\ UNCHANGED simvars
    /\ UNCHANGED dbvars

\* lines 449-465: the body of the innermost loop on the next combination
SweepStep ==
    /\ sweep.pc = "loop"
    /\ sweep.combos_tested < Len(sweep.valid_hours) * Len(SL_GRID) * Len(TP_GRID)
    /\ \E c \in {ComboOf(sweep.valid_hours, sweep.combos_tested)} :
       \E res \in {simulate_trades(sweep.h1, c.entry_hour, c.sl_pct, c.tp_pct,
                                   sweep.spread, sweep.m5_arrays)} :
          sweep' = IF Improves(res, sweep.best_return)
                   THEN [sweep EXCEPT !.combos_tested = @ + 1,
                                      !.best_return = res.total_return,
                                      !.best = [is_none |-> FALSE,
                                                best_params |-> c,
                                                results |-> res]]
                   ELSE [sweep EXCEPT !.combos_tested = @ + 1]
    /\ UNCHANGED simvars
    /\ UNCHANGED dbvars

\* lines 467-470 after the last combination
SweepReturn ==
    /\ sweep.pc = "loop"
    /\ sweep.combos_tested = Len(sweep.valid_hours) * Len(SL_GRID) * Len(TP_GRID)
    /\ sweep' = [sweep EXCEPT !.pc = "done",
                              !.ret = IF sweep.best.is_none THEN sweep.best
                                      ELSE [is_none |-> FALSE,
                                            best_params |-> sweep.best.best_params,
                                            results |-> sweep.best.results,
                                            combos_tested |-> sweep.combos_tested]]
    /\ UNCHANGED simvars
    /\ UNCHANGED dbvars

NextSweep == SweepNone \/ SweepBegin \/ SweepStep \/ SweepReturn

SpecSweep == InitSweep /\ [][NextSweep]_vars

(***************************************************************************)
(* Two calls of sweep_parameters in one process on the same arguments.     *)
(* The record keeps what the first call left behind (best, best_return,    *)
(* combos_tested, valid_hours) when the second call starts; first is the   *)
(* first call's return value.  The series are those of the first two days. *)
(***************************************************************************)
TwiceSeries ==
    {q \in H1Series : \A i \in 1..Len(q) : DateOf(q[i].t) \in {0, 1}}

InitTwice ==
    /\ P = "none"
    /\ st = InitState
    /\ j = 0
    /\ bar = NoBar
    /\ close_price = 0
    /\ hours_seen = {}
    /\ pc = "off"
    /\ result = "none"
    /\ DbOff
    /\ \E h1 \in TwiceSeries, spread \in SweepSpreads, symbol \in SweepSymbols :
         sweep = [pc |-> "start", h1 |-> h1, spread |-> spread, symbol |-> symbol,
                  m5_arrays |-> NoM5, valid_hours |-> <<>>, best |-> NoBest,
                  best_return |-> -999999 * 100, combos_tested |-> 0,
                  ret |-> "none", calls |-> 1, first |-> NoBest]

\* the caller calls sweep_parameters again with the same h1, spread, symbol, m5
SweepAgain ==
    /\ sweep.pc = "done"
    /\ sweep.calls = 1
    /\ sweep' = [sweep EXCEPT !.pc = "start", !.calls = 2, !.first = sweep.ret,
                              !.ret = "none"]
    /\ UNCHANGED simvars
    /\ UNCHANGED dbvars

NextTwice == NextSweep \/ SweepAgain

SpecTwice == InitTwice /\ [][NextTwice]_vars



(***************************************************************************)
(* Ranking and activation on the tables markets and weekly_analysis.  A    *)
(* row of weekly_analysis keeps the columns the activation policy and the  *)
(* stability lookback read: symbol, week_start, final_score, rank,         *)
(* is_active, is_manually_overridden and the optimal parameters (opt, NULL *)
(* when the sweep returned None).  store_analysis does not list            *)
(* is_manually_overridden in its INSERT: a new row is not overridden.      *)
(* markets is the result of "SELECT symbol, category ... ORDER BY symbol". *)
(* Scores and thresholds are whole numbers of points.                      *)
(***************************************************************************)
NoOpt == [is_none |-> TRUE]
Opt(entry_hour, sl_pct, tp_pct) ==
    [is_none |-> FALSE, entry_hour |-> entry_hour, sl_pct |-> sl_pct, tp_pct |-> tp_pct]

\* all the orders of a finite set, as sequences
RECURSIVE Perms(_)
Perms(S) ==
    IF S = {} THEN {<<>>}
    ELSE UNION {{<<x>> \o q : q \in Perms(S \ {x})} : x \in S}

\* config.py lines 67-80: the latest week that has scored rows, else the current one
effective_week_start(rows, current) ==
    IF rows = {} THEN current
    ELSE CHOOSE w \in {r.week_start : r \in rows} :
             \A r \in rows : r.week_start <= w

\* JOIN markets ... AND m.category = 'stock' / != 'stock'
InCategory(mk, symbol, is_stock) ==
    \E i \in 1..Len(mk) :
        mk[i].symbol = symbol /\ ((mk[i].category = "stock") <=> is_stock)

\* the rows of the effective week without the category filter
PoolRowsAnyCategory(rows, mk, is_stock, week_start) ==
    {r \in rows : r.week_start = week_start}

\* config.py lines 194-205: the rows of the pool in the effective week, and the
\* orders "ORDER BY final_score DESC" may return them in
PoolRows(rows, mk, is_stock, week_start) ==
    {r \in rows : r.week_start = week_start /\ InCategory(mk, r.symbol, is_stock)}
ScoreOrders(S) ==
    {q \in Perms(S) : \A i \in 1..(Len(q) - 1) : q[i].final_score >= q[i + 1].final_score}

\* analytics.py lines 393-419
dynamic_min_score(tr, base_min_score) ==
    IF tr.total < 10 THEN base_min_score
    ELSE LET win_rate == FMul(Frac(tr.wins, tr.total), FInt(100))
         IN  IF FGeq(win_rate, FInt(65)) THEN 35
             ELSE IF FLess(win_rate, FInt(40)) THEN 50
             ELSE base_min_score

\* analytics.py lines 527-531
MinScoreOfBatch(cfg, tr) ==
    IF cfg.dynamic_min_score_enabled
    THEN dynamic_min_score(tr, cfg.min_final_score)
    ELSE cfg.min_final_score

\* the re-ranking with every slot an auto slot
RankingOfOrderNoPins(ord, max_active, min_score) ==
    {IF ord[i].is_manually_overridden THEN ord[i]
     ELSE [ord[i] EXCEPT !.is_active =
               (Cardinality({k \in 1..(i - 1) : ~ord[k].is_manually_overridden})
                    < max_active)
               /\ (ord[i].final_score >= min_score)] :
        i \in 1..Len(ord)}

\* config.py lines 207-231 on the rows ord of a pool, in the order fetched:
\* the rows after the loop of UPDATEs
RankingOfOrder(ord, max_active, min_score) ==
    LET manual_active ==
            Cardinality({i \in 1..Len(ord) :
                            ord[i].is_manually_overridden /\ ord[i].is_active})
        auto_slots == IF max_active - manual_active > 0
                      THEN max_active - manual_active ELSE 0
        auto_idx(i) == Cardinality({k \in 1..(i - 1) : ~ord[k].is_manually_overridden})
    IN  {IF ord[i].is_manually_overridden THEN ord[i]
         ELSE [ord[i] EXCEPT !.is_active =
                   (auto_idx(i) < auto_slots) /\ (ord[i].final_score >= min_score)] :
            i \in 1..Len(ord)}

\* config.py lines 182-243: _apply_ranking_for_category, the pool fetched in
\* the order ord; min_score is settings.min_final_score (line 190)
apply_ranking_for_category(rows, cfg, max_active, ord) ==
    (rows \ {ord[i] : i \in 1..Len(ord)})
        \cup RankingOfOrder(ord, max_active, cfg.min_final_score)

\* list.sort(key=final_score, reverse=True): stable, descending
RECURSIVE SortByScore(_)
SortByScore(seq) ==
    IF seq = <<>> THEN <<>>
    ELSE LET front == SortByScore(SubSeq(seq, 1, Len(seq) - 1))
             x == seq[Len(seq)]
             n == Cardinality({i \in 1..Len(front) : front[i].final_score >= x.final_score})
         IN  SubSeq(front, 1, n) \o <<x>> \o SubSeq(front, n + 1, Len(front))

\* an INSERT that ignores the key (symbol, week_start)
store_analysis_insert(rows, m) ==
    rows \cup {[symbol |-> m.symbol, week_start |-> m.week_start,
                final_score |-> m.final_score, rank |-> m.rank,
                is_active |-> m.is_active, is_manually_overridden |-> FALSE,
                opt |-> m.opt]}

\* analytics.py lines 307-390: INSERT ... ON CONFLICT (symbol, week_start) DO UPDATE
store_analysis(rows, m) ==
    LET conflict == {r \in rows : r.symbol = m.symbol /\ r.week_start = m.week_start}
    IN  IF conflict = {}
        THEN rows \cup {[symbol |-> m.symbol, week_start |-> m.week_start,
                         final_score |-> m.final_score, rank |-> m.rank,
                         is_active |-> m.is_active, is_manually_overridden |-> FALSE,
                         opt |-> m.opt]}
        ELSE (rows \ conflict)
             \cup {[r EXCEPT !.final_score = m.final_score, !.rank = m.rank,
                             !.opt = m.opt,
                             !.is_active = IF r.is_manually_overridden THEN r.is_active
                                           ELSE m.is_active] : r \in conflict}

RECURSIVE StoreAll(_, _)
StoreAll(rows, all_scored) ==
    IF all_scored = <<>> THEN rows
    ELSE StoreAll(store_analysis(rows, Head(all_scored)), Tail(all_scored))

\* analytics.py lines 545-553: rank and is_active of a sorted pool
RankPool(pool, max_active, min_score, week_start) ==
    [i \in 1..Len(pool) |->
        [symbol |-> pool[i].symbol, week_start |-> week_start,
         final_score |-> pool[i].final_score, opt |-> pool[i].opt,
         rank |-> i,
         is_active |-> (i - 1 < max_active) /\ (pool[i].final_score >= min_score)]]

\* analytics.py lines 421-574: run_full_analysis.  outcome[i] is what phase 1
\* made of markets[i]: an error (no data, an exception), or metrics with a
\* final_score and the optimal parameters of the backtest, NULL when
\* run_backtest_for_symbol returned None
run_full_analysis(rows, mk, cfg, tr, week_start, outcome) ==
    LET Scored(i) == outcome[i].kind = "scored"
        index == SelectSeq([i \in 1..Len(mk) |-> i], Scored)
        scored == [k \in 1..Len(index) |->
                     [symbol |-> mk[index[k]].symbol,
                      final_score |-> outcome[index[k]].final_score,
                      opt |-> outcome[index[k]].opt]]
        min_score == MinScoreOfBatch(cfg, tr)
        StockRow(r) == InCategory(mk, r.symbol, TRUE)
        OtherRow(r) == ~InCategory(mk, r.symbol, TRUE)
        stocks == SortByScore(SelectSeq(scored, StockRow))
        non_stocks == SortByScore(SelectSeq(scored, OtherRow))
        all_scored == RankPool(non_stocks, cfg.max_active_markets, min_score, week_start)
                      \o RankPool(stocks, cfg.max_active_stocks, min_score, week_start)
    IN  StoreAll(rows, all_scored)

Outcomes(scores, opts) ==
    {[kind |-> "error"]} \cup [kind : {"scored"}, final_score : scores, opt : opts]

\* the weekly batch run for the current week
BatchRun(scores, opts) ==
    /\ op # "off"
    /\ \E outcome \in [1..Len(markets) -> Outcomes(scores, opts)] :
         wa' = run_full_analysis(wa, markets, settings, trades, week, outcome)
    /\ op' = "batch"
    /\ UNCHANGED <<markets, settings, trades, week, sweep>>
    /\ UNCHANGED simvars

\* POST /config/apply-ranking: the two pools, one after the other
ApplyRanking ==
    /\ op # "off"
    /\ LET week_start == effective_week_start(wa, week)
       IN  \E ord1 \in ScoreOrders(PoolRows(wa, markets, FALSE, week_start)) :
           \E mid \in {apply_ranking_for_category(wa, settings,
                                                  settings.max_active_markets, ord1)} :
           \E ord2 \in ScoreOrders(PoolRows(mid, markets, TRUE, week_start)) :
              wa' = apply_ranking_for_category(mid, settings,
                                               settings.max_active_stocks, ord2)
    /\ op' = "rank"
    /\ UNCHANGED <<markets, settings, trades, week, sweep>>
    /\ UNCHANGED simvars

\* PUT /config/max-active-markets and PUT /config/max-active-stocks
SetMaxActive(pools, values) ==
    /\ op # "off"
    /\ \E is_stock \in pools, n \in values :
         /\ settings' = IF is_stock THEN [settings EXCEPT !.max_active_stocks = n]
                        ELSE [settings EXCEPT !.max_active_markets = n]
         /\ \E ord \in ScoreOrders(PoolRows(wa, markets, is_stock,
                                            effective_week_start(wa, week))) :
              wa' = apply_ranking_for_category(wa, settings, n, ord)
    /\ op' = "rank"
    /\ UNCHANGED <<markets, trades, week, sweep>>
    /\ UNCHANGED simvars

\* POST /override/{symbol} with active true or false (and the Telegram bot's
\* commands, which run the same UPDATE)
Override ==
    /\ op # "off"
    /\ \E i \in 1..Len(markets), active \in BOOLEAN :
         wa' = {IF r.symbol = markets[i].symbol
                   /\ r.week_start = effective_week_start(wa, week)
                THEN [r EXCEPT !.is_active = active, !.is_manually_overridden = TRUE]
                ELSE r : r \in wa}
    /\ op' = "override"
    /\ UNCHANGED <<markets, settings, trades, week, sweep>>
    /\ UNCHANGED simvars

\* POST /override/{symbol} with active null: the flag cleared, the pool re-ranked
OverrideClear ==
    /\ op # "off"
    /\ \E i \in 1..Len(markets) :
         LET week_start == effective_week_start(wa, week)
             is_stock == markets[i].category = "stock"
             max_active == IF is_stock THEN settings.max_active_stocks
                           ELSE settings.max_active_markets
         IN  \E cleared \in {{IF r.symbol = markets[i].symbol /\ r.week_start = week_start
                              THEN [r EXCEPT !.is_manually_overridden = FALSE]
                              ELSE r : r \in wa}} :
             \E ord \in ScoreOrders(PoolRows(cleared, markets, is_stock, week_start)) :
                wa' = apply_ranking_for_category(cleared, settings, max_active, ord)
    /\ op' = "rank"
    /\ UNCHANGED <<markets, settings, trades, week, sweep>>
    /\ UNCHANGED simvars

(***************************************************************************)
(* One week of operations on a pool of two indices.  A backtest returns    *)
(* parameters or None; final_score is 37 or 45, on either side of the base *)
(* threshold 40 and between the adjusted thresholds 35 and 50.             *)
(***************************************************************************)
RankMarkets ==
    <<[symbol |-> "A", category |-> "index"], [symbol |-> "B", category |-> "index"]>>
RankScores == {37, 45}
RankOpts == {NoOpt, Opt(10, SL_GRID[1], TP_GRID[1])}
MaxActiveValues == {1, 2}
TradeStats ==
    {[total |-> 9, wins |-> 9], [total |-> 20, wins |-> 13],
     [total |-> 20, wins |-> 7], [total |-> 20, wins |-> 10]}
RankSettings ==
    {c \in [max_active_markets : {2}, max_active_stocks : {1}, min_final_score : {40},
            dynamic_min_score_enabled : BOOLEAN, trades : TradeStats] :
        ~c.dynamic_min_score_enabled => c.trades.total = 9}

InitRank ==
    /\ P = "none"
    /\ st = InitState
    /\ j = 0
    /\ bar = NoBar
    /\ close_price = 0
    /\ hours_seen = {}
    /\ pc = "off"
    /\ result = "none"
    /\ sweep = NoSweep
    /\ markets = RankMarkets
    /\ wa = {}
    /\ \E c \in RankSettings :
         /\ settings = [max_active_markets |-> c.max_active_markets,
                        max_active_stocks |-> c.max_active_stocks,
                        min_final_score |-> c.min_final_score,
                        dynamic_min_score_enabled |-> c.dynamic_min_score_enabled]
         /\ trades = c.trades
    /\ week = 1
    /\ op = "init"

BatchRank == BatchRun(RankScores, RankOpts)
SetMaxActiveRank == SetMaxActive({FALSE}, MaxActiveValues)

NextRank == BatchRank \/ ApplyRanking \/ SetMaxActiveRank \/ Override \/ OverrideClear

SpecRank == InitRank /\ [][NextRank]_vars

(***************************************************************************)
(* Several weeks of operations on an index and a stock.  The calendar      *)
(* moves on to the next Monday between operations; a batch run scores the  *)
(* week get_current_week_start returns, the endpoints work on the latest   *)
(* week that has rows.                                                     *)
(***************************************************************************)
MaxWeek == 2
WeekMarkets ==
    <<[symbol |-> "A", category |-> "index"], [symbol |-> "S", category |-> "stock"]>>
WeekScores == {37, 45}
WeekOpts == {NoOpt, Opt(10, SL_GRID[1], TP_GRID[1])}

InitWeeks ==
    /\ P = "none"
    /\ st = InitState
    /\ j = 0
    /\ bar = NoBar
    /\ close_price = 0
    /\ hours_seen = {}
    /\ pc = "off"
    /\ result = "none"
    /\ sweep = NoSweep
    /\ markets = WeekMarkets
    /\ wa = {}
    /\ settings = [max_active_markets |-> 1, max_active_stocks |-> 1,
                   min_final_score |-> 40, dynamic_min_score_enabled |-> FALSE]
    /\ trades = [total |-> 0, wins |-> 0]
    /\ week = 1
    /\ op = "init"

\* analytics.py lines 386-390: date.today() has reached the next Monday
NewWeek ==
    /\ op # "off"
    /\ week < MaxWeek
    /\ week' = week + 1
    /\ op' = "monday"
    /\ UNCHANGED <<markets, wa, settings, trades, sweep>>
    /\ UNCHANGED simvars

BatchWeeks == BatchRun(WeekScores, WeekOpts)
SetMaxActiveWeeks == SetMaxActive({TRUE}, {1})

NextWeeks ==
    NewWeek \/ BatchWeeks \/ ApplyRanking \/ SetMaxActiveWeeks \/ Override \/ OverrideClear

SpecWeeks == InitWeeks /\ [][NextWeeks]_vars

(***************************************************************************)
(* calculate_parameter_stability: one call on the weekly_analysis rows of  *)
(* an instrument.  The returned float is kept as the integer value * 10.   *)
(* A stored parameter is read back as the value that was written.          *)
(***************************************************************************)
\* LIMIT 8
Lookback == 8

\* ORDER BY week_start DESC
RECURSIVE NewestFirst(_)
NewestFirst(S) ==
    IF S = {} THEN <<>>
    ELSE LET r == CHOOSE x \in S : \A y \in S : x.week_start >= y.week_start
         IN  <<r>> \o NewestFirst(S \ {r})

\* lines 505-517: the rows the query returns
StabilityRows(rows, symbol, week_start) ==
    LET hist == {r \in rows : /\ r.symbol = symbol
                              /\ r.week_start < week_start
                              /\ ~r.opt.is_none}
        ord == NewestFirst(hist)
    IN  SubSeq(ord, 1, IF Len(ord) < Lookback THEN Len(ord) ELSE Lookback)

\* a comparison of the entry hours only
MatchesHourOnly(r, best_params) == r.opt.entry_hour = best_params.entry_hour

\* lines 525-527
MatchesParams(r, best_params) ==
    /\ r.opt.entry_hour = best_params.entry_hour
    /\ r.opt.sl_pct = best_params.sl_pct
    /\ r.opt.tp_pct = best_params.tp_pct

\* lines 495-530
calculate_parameter_stability(rows, symbol, week_start, best_params) ==
    LET fetched == StabilityRows(rows, symbol, week_start)
        matching == Cardinality({i \in 1..Len(fetched) :
                                    MatchesParams(fetched[i], best_params)})
    IN  IF fetched = <<>> THEN 100 * 10
        ELSE QRound(QMul(QOfFrac(Frac(matching, Len(fetched))), QInt(100)), 10)

\* the histories: one row for each of the first n weeks, n up to one more than
\* the query's limit, each with the parameters of this week, with another
\* take-profit, or with none; with or without rows the query must not return
\* (a row of the week itself, placed there by InitStability, and a row of
\* another instrument)
HistWeeks == Lookback + 1
ThisOpt == Opt(10, SL_GRID[1], TP_GRID[1])
OtherOpt == Opt(10, SL_GRID[1], TP_GRID[2])
HistRow(symbol, week_start, opt) ==
    [symbol |-> symbol, week_start |-> week_start, final_score |-> 45, rank |-> 1,
     is_active |-> TRUE, is_manually_overridden |-> FALSE, opt |-> opt]
HistOpts == {NoOpt, ThisOpt, OtherOpt}
HistExtras == {{}, {HistRow("A", 0, ThisOpt), HistRow("B", 1, ThisOpt)}}

InitStability ==
    /\ st = InitState
    /\ j = 0
    /\ bar = NoBar
    /\ close_price = 0
    /\ hours_seen = {}
    /\ pc = "off"
    /\ result = "none"
    /\ sweep = NoSweep
    /\ markets = <<>>
    /\ settings = <<>>
    /\ trades = <<>>
    /\ op = "init"
    /\ \E n \in 0..HistWeeks :
       \E f \in [1..n -> HistOpts], extra \in HistExtras :
         /\ wa = {HistRow("A", w, f[w]) : w \in 1..n}
                 \cup {[r EXCEPT !.week_start = IF r.symbol = "A" THEN n + 1 ELSE @] :
                          r \in extra}
         /\ week = n + 1
         /\ P = [symbol |-> "A", week_start |-> n + 1,
                 best_params |-> [entry_hour |-> ThisOpt.entry_hour,
                                  sl_pct |-> ThisOpt.sl_pct, tp_pct |-> ThisOpt.tp_pct]]

\* run_backtest_for_symbol line 583: the call
Stability ==
    /\ op = "init"
    /\ result' = calculate_parameter_stability(wa, P.symbol, P.week_start, P.best_params)
    /\ op' = "stability"
    /\ UNCHANGED <<P, st, j, bar, close_price, hours_seen, pc, sweep>>
    /\ UNCHANGED <<markets, wa, settings, trades, week>>

NextStability == Stability

SpecStability == InitStability /\ [][NextStability]_vars

(***************************************************************************)
(* calculate_backtest_score: one call on a result dict and a stability.    *)
(* The floats of the result are the integers of MakeResult, stability and  *)
(* the returned score are kept as the integer value * 10.                  *)
(***************************************************************************)
QLower(a, b) == IF QCmp(a, b) <= 0 THEN a ELSE b
QUpper(a, b) == IF QCmp(a, b) >= 0 THEN a ELSE b

\* the penalty applied at stability 50 as well
PenalisedInclusive(stability) == stability <= 50 * 10

\* line 487: stability < 50
Penalised(stability) == stability < 50 * 10

\* lines 473-492
calculate_backtest_score(results, stability) ==
    LET total_return == QOfFrac(Frac(results.total_return, 100))
        profit_factor == QOfFrac(Frac(results.profit_factor, 100))
        win_rate == QOfFrac(Frac(results.win_rate, 10))
        max_drawdown == QOfFrac(Frac(results.max_drawdown, 100))
        norm_return == QLower(QUpper(total_return, QInt(0)), QInt(100))
        norm_pf == QMul(QLower(QDiv(profit_factor, QInt(3)), QInt(1)), QInt(100))
        norm_wr == win_rate
        norm_dd == QUpper(QInt(0), QSub(QInt(100), QMul(max_drawdown, QInt(5))))
        raw == QAdd(QAdd(QMul(norm_return, QOfFrac(Frac(35, 100))),
                         QMul(norm_pf, QOfFrac(Frac(30, 100)))),
                    QAdd(QMul(norm_wr, QOfFrac(Frac(15, 100))),
                         QMul(norm_dd, QOfFrac(Frac(20, 100)))))
        scaled == IF Penalised(stability)
                  THEN QMul(raw, QDiv(QOfFrac(Frac(stability, 10)), QInt(100)))
                  ELSE raw
    IN  QRound(QUpper(QInt(0), QLower(QInt(100), scaled)), 10)

\* results as simulate_trades rounds them, and stabilities on both sides of 50
ScoreReturns == {-500, 0, 1234, 100 * 100, 150 * 100}
ScoreProfitFactors == {0, 150, 300, 99 * 100}
ScoreWinRates == {0, 333, 100 * 10}
ScoreDrawdowns == {0, 1000, 2500}
ScoreStabilities == {0, 333, 499, 50 * 10, 100 * 10}

InitScore ==
    /\ st = InitState
    /\ j = 0
    /\ bar = NoBar
    /\ close_price = 0
    /\ hours_seen = {}
    /\ pc = "off"
    /\ result = "none"
    /\ sweep = NoSweep
    /\ markets = <<>>
    /\ wa = {}
    /\ settings = <<>>
    /\ trades = <<>>
    /\ week = 0
    /\ op = "init"
    /\ \E tr \in ScoreReturns, pf \in ScoreProfitFactors, wr \in ScoreWinRates,
          dd \in ScoreDrawdowns, stability \in ScoreStabilities :
         P = [results |-> [total_return |-> tr, profit_factor |-> pf, win_rate |-> wr,
                           max_drawdown |-> dd],
              stability |-> stability]

\* run_backtest_for_symbol line 584: the call
Score ==
    /\ op = "init"
    /\ result' = calculate_backtest_score(P.results, P.stability)
    /\ op' = "score"
    /\ UNCHANGED <<P, st, j, bar, close_price, hours_seen, pc, sweep>>
    /\ UNCHANGED <<markets, wa, settings, trades, week>>

NextScore == Score

SpecScore == InitScore /\ [][NextScore]_vars

(***************************************************************************)
(* compute_technical_score: one call on a metrics dict.  A metric is       *)
(* Missing (None, or no key) or Val(f) for a fraction f; the floats are    *)
(* exact fractions.                                                        *)
(***************************************************************************)
Missing == [is_none |-> TRUE]
Val(f) == [is_none |-> FALSE, v |-> f]

FLower(a, b) == IF FLeq(a, b) THEN a ELSE b
FUpper(a, b) == IF FGeq(a, b) THEN a ELSE b
FClamp(a) == FUpper(FInt(0), FLower(FInt(100), a))

\* analytics.py lines 133-137
win_rate_score(metrics) ==
    IF ~metrics.up_day_win_rate.is_none
    THEN FClamp(FMul(FDiv(FSub(metrics.up_day_win_rate.v, FInt(45)), FInt(20)), FInt(100)))
    ELSE FInt(50)

\* lines 140-147
growth_loss_score(metrics) ==
    IF /\ ~metrics.avg_daily_growth.is_none
       /\ ~metrics.avg_daily_loss.is_none
       /\ metrics.avg_daily_loss.v.n # 0
    THEN LET ratio == FAbs(FDiv(metrics.avg_daily_growth.v, metrics.avg_daily_loss.v))
         IN  FClamp(FMul(FDiv(FSub(ratio, Frac(1, 2)), Frac(3, 2)), FInt(100)))
    ELSE FInt(50)

Above(price, sma) == ~sma.is_none /\ FLess(sma.v, price.v)

\* lines 150-162
trend_score(metrics) ==
    IF ~metrics.current_price.is_none
    THEN FInt((IF Above(metrics.current_price, metrics.sma_20) THEN 33 ELSE 0)
              + (IF Above(metrics.current_price, metrics.sma_50) THEN 33 ELSE 0)
              + (IF Above(metrics.current_price, metrics.sma_200) THEN 34 ELSE 0))
    ELSE FInt(0)

\* lines 165-174
rsi_score(metrics) ==
    IF ~metrics.rsi_14.is_none
    THEN LET rsi == metrics.rsi_14.v
         IN  IF FLeq(FInt(40), rsi) /\ FLeq(rsi, FInt(65))
             THEN FSub(FInt(100),
                       FMul(FDiv(FAbs(FSub(rsi, Frac(105, 2))), Frac(25, 2)), FInt(30)))
             ELSE IF FLess(rsi, FInt(40))
             THEN FUpper(FInt(0), FMul(FDiv(rsi, FInt(40)), FInt(70)))
             ELSE FUpper(FInt(0), FSub(FInt(100), FMul(FSub(rsi, FInt(65)), FInt(3))))
    ELSE FInt(50)

\* lines 177-178: metrics.get(...) or 0
OrZero(metric) == IF metric.is_none THEN FInt(0) ELSE metric.v

\* lines 177-185
momentum_score(metrics) ==
    LET m1w == FUpper(FInt(-5), FLower(FInt(5), OrZero(metrics.change_1w)))
        m1m == FUpper(FInt(-5), FLower(FInt(5), OrZero(metrics.change_1m)))
        momentum == FAdd(FMul(m1w, Frac(4, 10)), FMul(m1m, Frac(6, 10)))
    IN  FClamp(FAdd(FInt(50), FMul(momentum, FInt(10))))

\* lines 194-207: lo, hi, mid of the asset class
AtrBand(symbol) ==
    IF symbol \in {"XAUUSD", "XAGUSD"}
    THEN [lo |-> Frac(3, 10), hi |-> Frac(12, 10), mid |-> Frac(75, 100)]
    ELSE IF symbol \in {"JP225", "HK50", "AUS200"}
    THEN [lo |-> Frac(4, 10), hi |-> Frac(18, 10), mid |-> Frac(11, 10)]
    ELSE IF symbol \in {"TSLA", "NVDA", "BABA", "ZM", "NFLX"}
    THEN [lo |-> FInt(1), hi |-> FInt(4), mid |-> Frac(25, 10)]
    ELSE IF symbol \in {"AAPL", "AMZN", "GOOG", "META", "MSFT", "BAC", "V", "PFE",
                        "T", "WMT", "AIRF", "ALVG", "BAYGn", "DBKGn", "IBE",
                        "LVMH", "RACE", "VOWG_p"}
    THEN [lo |-> Frac(5, 10), hi |-> Frac(25, 10), mid |-> Frac(15, 10)]
    ELSE [lo |-> Frac(5, 10), hi |-> FInt(2), mid |-> Frac(125, 100)]

\* lines 188-216
volatility_score(metrics) ==
    IF /\ ~metrics.atr_14.is_none
       /\ ~metrics.current_price.is_none
       /\ metrics.current_price.v.n > 0
    THEN LET atr_pct == FMul(FDiv(metrics.atr_14.v, metrics.current_price.v), FInt(100))
             band == AtrBand(metrics.symbol)
         IN  IF FLeq(band.lo, atr_pct) /\ FLeq(atr_pct, band.hi)
             THEN LET half_range == FDiv(FSub(band.hi, band.lo), FInt(2))
                  IN  FSub(FInt(100),
                           FMul(FDiv(FAbs(FSub(atr_pct, band.mid)), half_range), FInt(30)))
             ELSE IF FLess(atr_pct, band.lo)
             THEN FMul(FDiv(atr_pct, band.lo), FInt(70))
             ELSE FUpper(FInt(0), FSub(FInt(100), FMul(FSub(atr_pct, band.hi), FInt(25))))
    ELSE FInt(50)

\* lines 130-216: the dict scores
SubScores(metrics) ==
    [win_rate |-> win_rate_score(metrics), growth_loss |-> growth_loss_score(metrics),
     trend |-> trend_score(metrics), rsi |-> rsi_score(metrics),
     momentum |-> momentum_score(metrics), volatility |-> volatility_score(metrics)]

\* lines 219-227
WeightedTotal(scores) ==
    FAdd(FAdd(FAdd(FMul(scores.win_rate, Frac(20, 100)),
                   FMul(scores.growth_loss, Frac(15, 100))),
              FAdd(FMul(scores.trend, Frac(25, 100)),
                   FMul(scores.rsi, Frac(15, 100)))),
         FAdd(FMul(scores.momentum, Frac(15, 100)),
              FMul(scores.volatility, Frac(10, 100))))

\* lines 118-228: the score, as the integer value * 10
compute_technical_score(metrics) ==
    QRound(QOfFrac(FClamp(WeightedTotal(SubScores(metrics)))), 10)

\* metrics on both sides of every branch, and missing
TechWinRates == {Missing, Val(FInt(40)), Val(FInt(55)), Val(FInt(70))}
TechGrowths == {Missing, Val(Frac(1, 2))}
TechLosses == {Missing, Val(FInt(0)), Val(Frac(-2, 5))}
TechPrices == {Missing, Val(FInt(100))}
TechSma20s == {Missing, Val(FInt(90))}
TechSma50s == {Missing, Val(FInt(110))}
TechSma200s == {Missing, Val(FInt(80))}
TechRsis == {Missing, Val(FInt(30)), Val(FInt(50)), Val(FInt(80))}
TechChange1ws == {Missing, Val(FInt(2))}
TechChange1ms == {Missing, Val(FInt(-10))}
TechAtrs == {Missing, Val(Frac(1, 5)), Val(FInt(1)), Val(FInt(9))}
TechSymbols == {"XAUUSD", "US500"}

InitTech ==
    /\ st = InitState
    /\ j = 0
    /\ bar = NoBar
    /\ close_price = 0
    /\ hours_seen = {}
    /\ pc = "off"
    /\ result = "none"
    /\ sweep = NoSweep
    /\ markets = <<>>
    /\ wa = {}
    /\ settings = <<>>
    /\ trades = <<>>
    /\ week = 0
    /\ op = "init"
    /\ \E wr \in TechWinRates, growth \in TechGrowths, loss \in TechLosses,
          price \in TechPrices, sma20 \in TechSma20s, sma50 \in TechSma50s,
          sma200 \in TechSma200s, rsi \in TechRsis, m1w \in TechChange1ws,
          m1m \in TechChange1ms, atr \in TechAtrs, symbol \in TechSymbols :
         P = [symbol |-> symbol, up_day_win_rate |-> wr, avg_daily_growth |-> growth,
              avg_daily_loss |-> loss, current_price |-> price, sma_20 |-> sma20,
              sma_50 |-> sma50, sma_200 |-> sma200, rsi_14 |-> rsi, change_1w |-> m1w,
              change_1m |-> m1m, atr_14 |-> atr]

\* analyze_symbol: the call; result keeps the sub-scores beside the score
TechScore ==
    /\ op = "init"
    /\ result' = [scores |-> SubScores(P), total |-> compute_technical_score(P)]
    /\ op' = "tech"
    /\ UNCHANGED <<P, st, j, bar, close_price, hours_seen, pc, sweep>>
    /\ UNCHANGED <<markets, wa, settings, trades, week>>

NextTech == TechScore

SpecTech == InitTech /\ [][NextTech]_vars

(***************************************************************************)
(* scripts/run_analysis.py: the cron script around run_full_analysis.  The *)
(* phase-1 loop is one step for each instrument; P[i] says what the        *)
(* analysis of markets[i] meets: the number of daily bars its candles      *)
(* build (0 for no candles) and whether a step of the analysis raises.     *)
(* result.results is the list the run returns, result.exit the status the  *)
(* script exits with (-1 while it runs).                                   *)
(***************************************************************************)
MaxSymbols == 4
MinDailyBars == 20
ScriptUniverse ==
    <<[symbol |-> "A", category |-> "index"], [symbol |-> "B", category |-> "index"],
      [symbol |-> "C", category |-> "stock"], [symbol |-> "D", category |-> "index"],
      [symbol |-> "E", category |-> "stock"], [symbol |-> "F", category |-> "index"]>>
DailyBarCounts == {0, MinDailyBars - 1, MinDailyBars}

InitScript ==
    /\ st = InitState
    /\ j = 0
    /\ bar = NoBar
    /\ close_price = 0
    /\ hours_seen = {}
    /\ pc = "off"
    /\ sweep = NoSweep
    /\ wa = {}
    /\ settings = [max_active_markets |-> 1, max_active_stocks |-> 1,
                   min_final_score |-> 40, dynamic_min_score_enabled |-> FALSE]
    /\ trades = [total |-> 0, wins |-> 0]
    /\ week = 1
    /\ op = "phase1"
    /\ result = [results |-> <<>>, exit |-> -1]
    /\ \E n \in 0..MaxSymbols :
         /\ markets = SubSeq(ScriptUniverse, 1, n)
         /\ P \in [1..n -> [daily : DailyBarCounts, raises : BOOLEAN]]

\* analytics.py lines 448-519: the entry an iteration appends to results
AnalyzeEntry(symbol, meets) ==
    IF meets.raises THEN [symbol |-> symbol, error |-> "Analysis failed"]
    ELSE IF meets.daily < MinDailyBars THEN [symbol |-> symbol, error |-> "No data"]
    ELSE [symbol |-> symbol, error |-> "", final_score |-> 45]

\* analytics.py lines 446-519: the loop goes on to the next instrument
ScriptAnalyze ==
    /\ op = "phase1"
    /\ j < Len(markets)
    /\ j' = j + 1
    /\ result' = [result EXCEPT !.results =
                     Append(@, AnalyzeEntry(markets[j + 1].symbol, P[j + 1]))]
    /\ UNCHANGED <<P, st, bar, close_price, hours_seen, pc, sweep, op>>
    /\ UNCHANGED <<markets, wa, settings, trades, week>>

\* analytics.py lines 524-574: phases 2 and 3 on the results of the loop
ScriptStore ==
    /\ op = "phase1"
    /\ j = Len(markets)
    /\ wa' = run_full_analysis(wa, markets, settings, trades, week,
                 [i \in 1..Len(markets) |->
                     IF i <= Len(result.results) /\ result.results[i].error = ""
                     THEN [kind |-> "scored",
                           final_score |-> result.results[i].final_score,
                           opt |-> ThisOpt]
                     ELSE [kind |-> "error"]])
    /\ op' = "phase2"
    /\ UNCHANGED <<P, st, j, bar, close_price, hours_seen, pc, sweep, result>>
    /\ UNCHANGED <<markets, settings, trades, week>>

\* exit 1 when half of the instruments failed as well
AtLeastHalfFailed(failed, total) == total > 0 /\ 2 * failed >= total

\* run_analysis.py lines 95-96: total > 0 and failed > total / 2
MajorityFailed(failed, total) == total > 0 /\ 2 * failed > total

\* run_analysis.py lines 32-102: the summary and the exit status
ScriptExit ==
    /\ op = "phase2"
    /\ LET analyzed == Cardinality({i \in 1..Len(result.results) :
                                       result.results[i].error = ""})
           failed == Cardinality({i \in 1..Len(result.results) :
                                     result.results[i].error # ""})
       IN  result' = [result EXCEPT !.exit =
                         IF MajorityFailed(failed, analyzed + failed) THEN 1 ELSE 0]
    /\ op' = "exited"
    /\ UNCHANGED <<P, st, j, bar, close_price, hours_seen, pc, sweep>>
    /\ UNCHANGED <<markets, wa, settings, trades, week>>

NextScript == ScriptAnalyze \/ ScriptStore \/ ScriptExit

SpecScript == InitScript /\ [][NextScript]_vars

(***************************************************************************)
(* The endpoints GET /config/{symbol} and POST /override/{symbol} with     *)
(* their responses.  result is the response sent last: the status, and for *)
(* a 200 the fields active, entry_hour, entry_minute, sl_percent,          *)
(* tp_percent and week_start, with the request it answers.  The fields     *)
(* derived from ai_confidence are left out.                                *)
(***************************************************************************)
NoReply == [status |-> 0]

\* config.py lines 281-283 and 353-355: HTTPException 404
NotFound(symbol) == [status |-> 404, symbol |-> symbol]

\* a response that falls back to the newest row of the symbol in any week
ConfigResponseStale(rows, symbol, week_start) ==
    LET found == {r \in rows : r.symbol = symbol /\ r.week_start = week_start}
        older == {r \in rows : r.symbol = symbol}
        row   == IF found # {} THEN CHOOSE r \in found : TRUE
                 ELSE CHOOSE r \in older : \A o \in older : o.week_start <= r.week_start
    IN  IF older = {}
        THEN [status |-> 200, symbol |-> symbol, active |-> FALSE, entry_hour |-> 0,
              entry_minute |-> 0, sl_percent |-> FInt(0), tp_percent |-> FInt(0),
              week_start |-> week_start]
        ELSE [status |-> 200, symbol |-> symbol, active |-> row.is_active,
              entry_hour |-> IF row.opt.is_none THEN 0 ELSE row.opt.entry_hour,
              entry_minute |-> 0,
              sl_percent |-> IF row.opt.is_none THEN FInt(0) ELSE row.opt.sl_pct,
              tp_percent |-> IF row.opt.is_none THEN FInt(0) ELSE row.opt.tp_pct,
              week_start |-> week_start]

\* config.py lines 286-334 and 389-440: the response built from the row
\* fetched for (symbol, week_start), the defaults when there is none
ConfigResponse(rows, symbol, week_start) ==
    LET found == {r \in rows : r.symbol = symbol /\ r.week_start = week_start}
    IN  IF found = {}
        THEN [status |-> 200, symbol |-> symbol, active |-> FALSE, entry_hour |-> 0,
              entry_minute |-> 0, sl_percent |-> FInt(0), tp_percent |-> FInt(0),
              week_start |-> week_start]
        ELSE LET row == CHOOSE r \in found : TRUE
             IN  [status |-> 200, symbol |-> symbol, active |-> row.is_active,
                  entry_hour |-> IF row.opt.is_none THEN 0 ELSE row.opt.entry_hour,
                  entry_minute |-> 0,
                  sl_percent |-> IF row.opt.is_none THEN FInt(0) ELSE row.opt.sl_pct,
                  tp_percent |-> IF row.opt.is_none THEN FInt(0) ELSE row.opt.tp_pct,
                  week_start |-> week_start]

IsKnown(mk, symbol) == \E i \in 1..Len(mk) : mk[i].symbol = symbol

\* config.py lines 272-335
get_config(rows, mk, current, symbol) ==
    IF ~IsKnown(mk, symbol) THEN NotFound(symbol)
    ELSE ConfigResponse(rows, symbol, effective_week_start(rows, current))

\* an UPDATE that sets the flag only
OverrideUpdateFlagOnly(rows, symbol, week_start, active) ==
    {IF r.symbol = symbol /\ r.week_start = week_start
     THEN [r EXCEPT !.is_manually_overridden = TRUE]
     ELSE r : r \in rows}

\* config.py lines 376-385: UPDATE ... SET is_active = $1, is_manually_overridden = true
OverrideUpdate(rows, symbol, week_start, active) ==
    {IF r.symbol = symbol /\ r.week_start = week_start
     THEN [r EXCEPT !.is_active = active, !.is_manually_overridden = TRUE]
     ELSE r : r \in rows}

ConfigSymbols == {"A", "S", "X"}
ConfigScores == {45}

InitConfig ==
    /\ P = "none"
    /\ st = InitState
    /\ j = 0
    /\ bar = NoBar
    /\ close_price = 0
    /\ hours_seen = {}
    /\ pc = "off"
    /\ result = NoReply
    /\ sweep = NoSweep
    /\ markets = WeekMarkets
    /\ wa = {}
    /\ settings = [max_active_markets |-> 1, max_active_stocks |-> 1,
                   min_final_score |-> 40, dynamic_min_score_enabled |-> FALSE]
    /\ trades = [total |-> 0, wins |-> 0]
    /\ week = 1
    /\ op = "init"

\* GET /config/{symbol}
GetConfig ==
    /\ \E symbol \in ConfigSymbols :
         result' = [request |-> [symbol |-> symbol],
                    response |-> get_config(wa, markets, week, symbol)]
    /\ op' = "get"
    /\ UNCHANGED <<P, st, j, bar, close_price, hours_seen, pc, sweep>>
    /\ UNCHANGED <<markets, wa, settings, trades, week>>

\* POST /override/{symbol} with active true or false, config.py lines 338-440
PostOverride ==
    /\ \E symbol \in ConfigSymbols, active \in BOOLEAN :
         LET week_start == effective_week_start(wa, week)
         IN  IF ~IsKnown(markets, symbol)
             THEN /\ wa' = wa
                  /\ result' = [request |-> [symbol |-> symbol, active |-> active],
                                response |-> NotFound(symbol)]
             ELSE /\ wa' = OverrideUpdate(wa, symbol, week_start, active)
                  /\ result' = [request |-> [symbol |-> symbol, active |-> active],
                                response |-> ConfigResponse(wa', symbol, week_start)]
    /\ op' = "override"
    /\ UNCHANGED <<P, st, j, bar, close_price, hours_seen, pc, sweep>>
    /\ UNCHANGED <<markets, settings, trades, week>>

BatchConfig == BatchRun(ConfigScores, WeekOpts)

NextConfig == NewWeek \/ BatchConfig \/ GetConfig \/ PostOverride \/ OverrideClear

SpecConfig == InitConfig /\ [][NextConfig]_vars

(***************************************************************************)
(* A manual override beside the automatic writes, statement by statement.  *)
(* Three tasks share the database connection pool and run one SQL          *)
(* statement at a time, none inside a transaction:                         *)
(*   - a re-ranking of the index pool by _apply_ranking_for_category: pc   *)
(*     is "select" before its SELECT, "update" inside its loop and "done"  *)
(*     after it; st holds its locals rows, auto_slots and auto_idx, and j  *)
(*     is the index of the row the loop is at;                             *)
(*   - phase 3 of a batch run: result.todo is the list all_scored still to *)
(*     be stored by store_analysis;                                        *)
(*   - an override of P.symbol to P.active (POST /override or the Telegram *)
(*     command, the same UPDATE): result.override is "pending" or "done".  *)
(***************************************************************************)
RaceScores == {37, 45}

\* analytics.py lines 524-551: all_scored of a batch that scored every market
AllScored(mk, cfg, tr, week_start, score) ==
    LET scored == [i \in 1..Len(mk) |->
                     [symbol |-> mk[i].symbol, final_score |-> score[i], opt |-> NoOpt]]
    IN  RankPool(SortByScore(scored), cfg.max_active_markets,
                 MinScoreOfBatch(cfg, tr), week_start)

InitRace ==
    /\ markets = RankMarkets
    /\ settings = [max_active_markets |-> 1, max_active_stocks |-> 1,
                   min_final_score |-> 40, dynamic_min_score_enabled |-> FALSE]
    /\ trades = [total |-> 0, wins |-> 0]
    /\ week = 1
    /\ \E before \in [1..Len(RankMarkets) -> RaceScores] :
         wa = StoreAll({}, AllScored(markets, settings, trades, week, before))
    /\ \E again \in [1..Len(RankMarkets) -> RaceScores] :
         result = [todo |-> AllScored(markets, settings, trades, week, again),
                   override |-> "pending"]
    /\ \E i \in 1..Len(RankMarkets), active \in BOOLEAN :
         P = [symbol |-> RankMarkets[i].symbol, active |-> active]
    /\ st = [rows |-> <<>>, auto_slots |-> 0, auto_idx |-> 0]
    /\ j = 0
    /\ pc = "select"
    /\ bar = NoBar
    /\ close_price = 0
    /\ hours_seen = {}
    /\ sweep = NoSweep
    /\ op = "init"

\* config.py lines 189-214: the SELECT and the slots counted on its rows
RaceSelect ==
    /\ pc = "select"
    /\ \E ord \in ScoreOrders(PoolRows(wa, markets, FALSE, effective_week_start(wa, week))) :
         LET manual_active ==
                 Cardinality({i \in 1..Len(ord) :
                                 ord[i].is_manually_overridden /\ ord[i].is_active})
         IN  st' = [rows |-> ord,
                    auto_slots |-> IF settings.max_active_markets - manual_active > 0
                                   THEN settings.max_active_markets - manual_active ELSE 0,
                    auto_idx |-> 0]
    /\ j' = 1
    /\ pc' = "update"
    /\ op' = "select"
    /\ UNCHANGED <<P, bar, close_price, hours_seen, result, sweep>>
    /\ UNCHANGED <<markets, wa, settings, trades, week>>

\* config.py lines 216-231: one iteration of the loop over the rows fetched,
\* the UPDATE of a row that was not overridden when it was read
RaceUpdate ==
    /\ pc = "update"
    /\ j <= Len(st.rows)
    /\ LET row == st.rows[j]
           should_be_active == (st.auto_idx < st.auto_slots)
                               /\ (row.final_score >= settings.min_final_score)
       IN  IF row.is_manually_overridden
           THEN UNCHANGED <<wa, st>>
           ELSE /\ wa' = {IF r.symbol = row.symbol /\ r.week_start = row.week_start
                          THEN [r EXCEPT !.is_active = should_be_active]
                          ELSE r : r \in wa}
                /\ st' = [st EXCEPT !.auto_idx = @ + 1]
    /\ j' = j + 1
    /\ pc' = IF j = Len(st.rows) THEN "done" ELSE "update"
    /\ op' = "update"
    /\ UNCHANGED <<P, bar, close_price, hours_seen, result, sweep>>
    /\ UNCHANGED <<markets, settings, trades, week>>

\* analytics.py lines 553-560: store_analysis of the next scored instrument
RaceStore ==
    /\ result.todo # <<>>
    /\ wa' = store_analysis(wa, Head(result.todo))
    /\ result' = [result EXCEPT !.todo = Tail(@)]
    /\ op' = "store"
    /\ UNCHANGED <<P, st, j, bar, close_price, hours_seen, pc, sweep>>
    /\ UNCHANGED <<markets, settings, trades, week>>

\* config.py lines 374-385 and telegram_bot.py lines 327-338: the UPDATE
RaceOverride ==
    /\ result.override = "pending"
    /\ wa' = OverrideUpdate(wa, P.symbol, effective_week_start(wa, week), P.active)
    /\ result' = [result EXCEPT !.override = "done"]
    /\ op' = "override"
    /\ UNCHANGED <<P, st, j, bar, close_price, hours_seen, pc, sweep>>
    /\ UNCHANGED <<markets, settings, trades, week>>

NextRace == RaceSelect \/ RaceUpdate \/ RaceStore \/ RaceOverride

SpecRace == InitRace /\ [][NextRace]_vars

(***************************************************************************)
(* Properties of simulate_trades                                           *)
(***************************************************************************)
\* a step of the loop: bar' is the bar of iteration j
IsLoopStep == pc = "loop" /\ pc' = "loop" /\ j' = j + 1
\* the end of the data on a non-empty series
IsReturnStep == pc = "loop" /\ pc' = "done" /\ j > 0

\* C1: one position slot.  The number of positions opened exceeds the number of
\* trades closed by at most one, and by one exactly while in_position; a position
\* is opened only in a step that starts flat or closes the open position first;
\* and a bar at the entry hour that the open position survives opens nothing and
\* leaves the entry untouched.
C1_OneSlotState ==
    /\ st.opened - Len(st.log) \in {0, 1}
    /\ st.in_position <=> (st.opened - Len(st.log) = 1)
C1_OneSlotStep ==
    IsLoopStep =>
       /\ st'.opened > st.opened => (~st.in_position \/ Len(st'.log) > Len(st.log))
       /\ (st.in_position /\ HourOf(bar'.t) = P.entry_hour /\ Len(st'.log) = Len(st.log))
            => /\ st'.opened = st.opened
               /\ st'.in_position
               /\ st'.entry_price = st.entry_price
               /\ st'.entry_bar_idx = st.entry_bar_idx
C1_OnePositionSlot == [](C1_OneSlotState) /\ [][C1_OneSlotStep]_vars

\* a position opened on an earlier bar is still open after a later entry-hour bar
C1_Witness ==
    /\ pc = "loop" /\ st.in_position
    /\ HourOf(bar.t) = P.entry_hour
    /\ st.entry_bar_idx = j - 2


\* the stop and target prices of a logged trade, from its entry price
SlOf(r) == FMul(r.entry_price, FSub(FInt(1), FDiv(P.sl_pct, FInt(100))))
TpOf(r) == FMul(r.entry_price, FAdd(FInt(1), FDiv(P.tp_pct, FInt(100))))
\* (price - entry) / entry * 100 - exit_spread_pct for a logged trade
RealizedAt(r, price) ==
    FSub(FDiv(FMul(FSub(FInt(price), r.entry_price), FInt(100)), r.entry_price),
         r.exit_spread_pct)
GapKinds == {"gap_sl", "gap_tp"}
LogRecords == {st.log[i] : i \in 1..Len(st.log)}

\* C2: gap handling.  Inside the loop, bar is bar j-1.  A position opened on an
\* earlier bar does not survive a bar that opens at or beyond its stop or target;
\* the trade closed on such a bar is closed as a gap fill with realized
\* percentage (open - entry) / entry * 100 - exit_spread_pct; and no trade is
\* closed as a gap fill on its entry bar (a close on the entry bar is nominal).
C2_GapFill ==
    /\ (pc = "loop" /\ st.in_position /\ st.entry_bar_idx < j - 1)
          => /\ ~FLeq(FInt(bar.open), st.sl_price)
             /\ ~FGeq(FInt(bar.open), st.tp_price)
    /\ \A r \in LogRecords :
          /\ (pc = "loop" /\ r.exit_bar = j - 1 /\ r.entry_bar < r.exit_bar
                /\ (FLeq(FInt(bar.open), SlOf(r)) \/ FGeq(FInt(bar.open), TpOf(r))))
               => /\ r.how \in GapKinds
                  /\ r.pnl = RealizedAt(r, bar.open)
                  /\ r.win <=> FGeq(FInt(bar.open), TpOf(r))
          /\ r.how \in GapKinds => r.exit_bar > r.entry_bar
          /\ r.exit_bar = r.entry_bar
               => r.pnl \in {FSub(FNeg(P.sl_pct), r.exit_spread_pct),
                             FSub(P.tp_pct, r.exit_spread_pct)}

\* a gap below the stop that lost more than the nominal stop, and a gap above the
\* target, in one run
C2_Witness ==
    /\ \E r \in LogRecords :
          r.how = "gap_sl" /\ FLess(r.pnl, FSub(FNeg(P.sl_pct), r.exit_spread_pct))
    /\ \E r \in LogRecords :
          r.how = "gap_tp" /\ FLess(FSub(P.tp_pct, r.exit_spread_pct), r.pnl)


\* what the log says the accumulators are: the equity product, the gross sums,
\* the running peak and the largest drawdown seen at a close
Factor(r) == QOfFrac(FAdd(FInt(1), FDiv(r.pnl, FInt(100))))
RECURSIVE EquityOfLog(_)
EquityOfLog(log) ==
    IF log = <<>> THEN QInt(100)
    ELSE QMul(EquityOfLog(SubSeq(log, 1, Len(log) - 1)), Factor(log[Len(log)]))
QMax(a, b) == IF QCmp(a, b) >= 0 THEN a ELSE b
RECURSIVE PeakOfLog(_)
PeakOfLog(log) ==
    IF log = <<>> THEN QInt(100)
    ELSE QMax(PeakOfLog(SubSeq(log, 1, Len(log) - 1)), EquityOfLog(log))
DrawdownAt(log) ==
    QMul(QDiv(QSub(PeakOfLog(log), EquityOfLog(log)), PeakOfLog(log)), QInt(100))
RECURSIVE MaxDrawdownOfLog(_)
MaxDrawdownOfLog(log) ==
    IF log = <<>> THEN QInt(0)
    ELSE QMax(MaxDrawdownOfLog(SubSeq(log, 1, Len(log) - 1)), DrawdownAt(log))
RECURSIVE GrossOfLog(_, _)
GrossOfLog(log, win) ==
    IF log = <<>> THEN QInt(0)
    ELSE LET r == log[Len(log)]
             rest == GrossOfLog(SubSeq(log, 1, Len(log) - 1), win)
         IN  IF r.win = win
             THEN QAdd(rest, QOfFrac(IF win THEN r.pnl ELSE FAbs(r.pnl)))
             ELSE rest
WinsOfLog(log) == Cardinality({i \in 1..Len(log) : log[i].win})

\* C4: the force-close.  When the data ends with a position open, the position
\* is closed at the last bar's close price, (close - entry) / entry * 100 -
\* exit_spread_pct, as a win when that is >= 0 and a loss otherwise, and the
\* trade is part of every aggregate: the counters, total_trades, the gross sums,
\* the equity and total_return, and the drawdown.
C4_ForceCloseStep ==
    (IsReturnStep /\ st.in_position) =>
       LET pnl == FSub(FDiv(FMul(FSub(FInt(close_price'), st.entry_price), FInt(100)),
                            st.entry_price),
                       st.exit_spread_pct)
           win == pnl.n >= 0
           f == QOfFrac(FAdd(FInt(1), FDiv(pnl, FInt(100))))
           eq == QMul(st.equity, f)
           peak == QMax(st.peak_equity, eq)
           dd == QMul(QDiv(QSub(peak, eq), peak), QInt(100))
       IN  /\ ~st'.in_position
           /\ Len(st'.log) = Len(st.log) + 1
           /\ st'.log[Len(st'.log)].how = "end"
           /\ st'.log[Len(st'.log)].pnl = pnl
           /\ st'.wins = st.wins + (IF win THEN 1 ELSE 0)
           /\ st'.losses = st.losses + (IF win THEN 0 ELSE 1)
           /\ result'.wins = st'.wins /\ result'.losses = st'.losses
           /\ result'.total_trades = st.wins + st.losses + 1
           /\ QEq(st'.gross_profit,
                  IF win THEN QAdd(st.gross_profit, QOfFrac(pnl)) ELSE st.gross_profit)
           /\ QEq(st'.gross_loss,
                  IF win THEN st.gross_loss ELSE QAdd(st.gross_loss, QOfFrac(FAbs(pnl))))
           /\ QEq(st'.equity, eq)
           /\ result'.total_return = QRound(QSub(eq, QInt(100)), 100)
           /\ QEq(st'.max_drawdown, QMax(st.max_drawdown, dd))
           /\ result'.max_drawdown = QRound(QMax(st.max_drawdown, dd), 100)
C5_LossBound ==
    \A r \in LogRecords :
        r.how # "gap_sl" => FGeq(r.pnl, FNeg(FAdd(P.sl_pct, r.exit_spread_pct)))

\* one run with an intrabar stop, a losing force-close and a gap below the stop
\* that lost more than the bound
C5_Witness ==
    /\ pc = "done"
    /\ \E r \in LogRecords : r.how \in {"sl", "entry_sl"}
    /\ \E r \in LogRecords : r.how = "end" /\ r.pnl.n < 0
    /\ \E r \in LogRecords :
          r.how = "gap_sl" /\ FLess(r.pnl, FNeg(FAdd(P.sl_pct, r.exit_spread_pct)))

\* C6 as stated: without a bar at the entry hour the result is all zero.
C6_AllZeroWithoutEntryHour ==
    (pc = "done" /\ P.entry_hour \notin hours_seen) => result = EmptyResult

\* C6 as amended: without a bar at the entry hour, total_return, win_rate,
\* max_drawdown, total_trades, wins and losses are 0; profit_factor is 0 for the
\* empty series and the sentinel 99.0 for a non-empty one.
C6_NoEntryHourResult ==
    (pc = "done" /\ P.entry_hour \notin hours_seen) =>
        result = [EmptyResult EXCEPT !.profit_factor = IF j = 0 THEN 0 ELSE 9900]

C6_Witness ==
    pc = "done" /\ j > 1 /\ P.entry_hour \notin hours_seen
    /\ result.profit_factor = 9900

\* C7 as stated: every result without a losing trade reports 99.0, every other
\* result gross_profit / gross_loss.
C7_SentinelAlways ==
    pc = "done" =>
        result.profit_factor =
            IF result.losses = 0 THEN 9900
            ELSE QRound(QDiv(GrossOfLog(st.log, TRUE), GrossOfLog(st.log, FALSE)), 100)

\* C7 as amended: the result of a non-empty series reports 99.0 when it has no
\* losing trade (gross_loss = 0) and gross_profit / gross_loss, a finite number,
\* otherwise; the result of the empty series reports 0.0.
C7_ProfitFactor ==
    pc = "done" =>
        /\ result.profit_factor \in Int
        /\ result.losses = 0 <=> GrossOfLog(st.log, FALSE).s = 0
        /\ result.profit_factor =
             IF j = 0 THEN 0
             ELSE IF result.losses = 0 THEN 9900
             ELSE QRound(QDiv(GrossOfLog(st.log, TRUE), GrossOfLog(st.log, FALSE)), 100)

\* a result with winning trades only
C7_Witness ==
    pc = "done" /\ result.wins >= 2 /\ result.losses = 0 /\ result.profit_factor = 9900

\* C8: equity bookkeeping.  The equity is 100 times the product of
\* (1 + realized_pct / 100) over the closed trades, each once; the peak is the
\* largest equity seen at a close (or 100) and is >= the equity; max_drawdown is
\* the largest (peak - equity) / peak * 100 seen at a close, is >= 0 and never
\* decreases; total_return is the final equity - 100.
C8_EquityState ==
    /\ QEq(st.equity, EquityOfLog(st.log))
    /\ QEq(st.peak_equity, PeakOfLog(st.log))
    /\ QCmp(st.peak_equity, st.equity) >= 0
    /\ QEq(st.max_drawdown, MaxDrawdownOfLog(st.log))
    /\ st.max_drawdown.s >= 0
    /\ pc = "done" =>
         /\ result.total_return = QRound(QSub(EquityOfLog(st.log), QInt(100)), 100)
         /\ result.max_drawdown = QRound(MaxDrawdownOfLog(st.log), 100)
C8_EquityStep ==
    /\ QCmp(st'.max_drawdown, st.max_drawdown) >= 0
    /\ Len(st'.log) >= Len(st.log)
    /\ SubSeq(st'.log, 1, Len(st.log)) = st.log
RowsInHour(t) ==
    {i \in 1..Len(P.m5_arrays.rows) :
        P.m5_arrays.rows[i].t >= t /\ P.m5_arrays.rows[i].t < t + 12}
RowTouchesSl(i, r) == FLeq(FInt(P.m5_arrays.rows[i].low), SlOf(r))
RowTouchesTp(i, r) == FGeq(FInt(P.m5_arrays.rows[i].high), TpOf(r))
TouchingRows(t, r) == {i \in RowsInHour(t) : RowTouchesSl(i, r) \/ RowTouchesTp(i, r)}
\* M5 data exists, some row of the hour touches a level, and the earliest such
\* row touches the target and not the stop
TargetFirst(t, r) ==
    /\ ~P.m5_arrays.is_none
    /\ TouchingRows(t, r) # {}
    /\ LET f == CHOOSE i \in TouchingRows(t, r) :
                   \A k \in TouchingRows(t, r) :
                       P.m5_arrays.rows[i].t <= P.m5_arrays.rows[k].t
       IN  RowTouchesTp(f, r) /\ ~RowTouchesSl(f, r)

\* how a trade r closed on bar j-1 must have ended if the M5 walk alone decided
ResolvedByWalk(r) ==
    /\ r.win <=> TargetFirst(bar.t, r)
    /\ r.pnl = IF TargetFirst(bar.t, r)
               THEN FSub(P.tp_pct, r.exit_spread_pct)
               ELSE FSub(FNeg(P.sl_pct), r.exit_spread_pct)
\* bar j-1 reaches both the stop and the target of r
SpansBoth(r) ==
    FLeq(FInt(bar.low), SlOf(r)) /\ FGeq(FInt(bar.high), TpOf(r))
\* bar j-1 is after the entry bar of r and opens at or beyond one of its levels
OpensBeyond(r) ==
    /\ r.entry_bar < j - 1
    /\ FLeq(FInt(bar.open), SlOf(r)) \/ FGeq(FInt(bar.open), TpOf(r))

\* C3 as stated: inside the loop (bar is bar j-1), every trade closed on a bar
\* whose low is at or below its stop and whose high is at or above its target is
\* a take-profit win exactly when TargetFirst holds, and otherwise a stop-loss
\* at -sl_pct - exit_spread_pct, whatever the bar's open.
C3_AmbiguityAnyBar ==
    pc = "loop" =>
      \A r \in LogRecords :
          (r.exit_bar = j - 1 /\ SpansBoth(r)) => ResolvedByWalk(r)

\* C3: same-bar ambiguity.  Inside the loop, bar is bar j-1.  No open position
\* survives a bar whose low is at or below its stop and whose high is at or above
\* its target; a trade closed on such a bar (its entry bar, or a later bar that
\* did not open at or beyond a level) is a take-profit win at
\* tp_pct - exit_spread_pct exactly when TargetFirst holds, and a stop-loss at
\* -sl_pct - exit_spread_pct in every other case.
C3_Ambiguity ==
    pc = "loop" =>
      /\ st.in_position =>
           ~(FLeq(FInt(bar.low), st.sl_price) /\ FGeq(FInt(bar.high), st.tp_price))
      /\ \A r \in LogRecords :
           (r.exit_bar = j - 1 /\ SpansBoth(r) /\ ~OpensBeyond(r))
               => ResolvedByWalk(r)

\* an ambiguous bar after the entry bar, resolved as a win by the second M5 row
\* of its hour, the first touching neither level
C3_Witness ==
    /\ pc = "loop"
    /\ \E r \in LogRecords : r.how = "amb_tp" /\ r.exit_bar = j - 1
    /\ Len(P.m5_arrays.rows) = 2
    /\ P.m5_arrays.rows[1].t = bar.t
    /\ P.m5_arrays.rows[1].low = 1000 /\ P.m5_arrays.rows[1].high = 1000


\* the combinations of the sweep running on valid_hours, and the order the spec
\* gives them: entry hours ascending, then SL ascending, then TP ascending
Combos(valid_hours) ==
    [entry_hour : ListSet(valid_hours), sl_pct : ListSet(SL_GRID),
     tp_pct : ListSet(TP_GRID)]
ComboBefore(a, b) ==
    \/ a.entry_hour < b.entry_hour
    \/ a.entry_hour = b.entry_hour /\ FLess(a.sl_pct, b.sl_pct)
    \/ a.entry_hour = b.entry_hour /\ a.sl_pct = b.sl_pct /\ FLess(a.tp_pct, b.tp_pct)
\* the total_return of every combination on the series of the call
ReturnsOfSweep ==
    [c \in Combos(sweep.valid_hours) |->
        simulate_trades(sweep.h1, c.entry_hour, c.sl_pct, c.tp_pct,
                        sweep.spread, sweep.m5_arrays).total_return]

\* C9: a sweep that ran its loops returns a combination, with the result of
\* simulating it; no combination has a greater total_return, every combination
\* before it in iteration order has a smaller one, and combos_tested is
\* |valid hours| * |SL_GRID| * |TP_GRID|.
C9_FirstArgmax ==
    (sweep.pc = "done" /\ sweep.valid_hours # <<>>) =>
      LET ret == sweep.ret
          R == ReturnsOfSweep
      IN  /\ ~ret.is_none
          /\ ret.best_params \in Combos(sweep.valid_hours)
          /\ ret.results = simulate_trades(sweep.h1, ret.best_params.entry_hour,
                                           ret.best_params.sl_pct,
                                           ret.best_params.tp_pct,
                                           sweep.spread, sweep.m5_arrays)
          /\ \A c \in Combos(sweep.valid_hours) :
                /\ R[c] <= ret.results.total_return
                /\ ComboBefore(c, ret.best_params) => R[c] < ret.results.total_return
          /\ ret.combos_tested
               = Len(sweep.valid_hours) * Cardinality(ListSet(SL_GRID))
                   * Cardinality(ListSet(TP_GRID))

\* a sweep over two valid hours whose best combination is not the first one
\* tried, beats some combination, and is tied with a later one
C9_Witness ==
    /\ sweep.pc = "done"
    /\ Len(sweep.valid_hours) = 2
    /\ ~sweep.ret.is_none
    /\ LET R == ReturnsOfSweep
           best == sweep.ret.best_params
       IN  /\ \E c \in Combos(sweep.valid_hours) :
                 ComboBefore(c, best) /\ R[c] < R[best]
           /\ \E c \in Combos(sweep.valid_hours) :
                 ComboBefore(best, c) /\ R[c] = R[best]
           /\ \E c \in Combos(sweep.valid_hours) :
                 ComboBefore(best, c) /\ R[c] < R[best]

\* the hours of day that occur on at least half of the distinct dates of the
\* series and lie in the session window of the symbol, bounds included
DatesOfSeries(h1) == {DateOf(h1[i].t) : i \in 1..Len(h1)}
DatesWithHour(h1, h) ==
    {d \in DatesOfSeries(h1) :
        \E i \in 1..Len(h1) : DateOf(h1[i].t) = d /\ HourOf(h1[i].t) = h}
ValidHourSet(h1, symbol) ==
    {h \in 0..23 :
        /\ DatesWithHour(h1, h) # {}
        /\ 2 * Cardinality(DatesWithHour(h1, h)) >= Cardinality(DatesOfSeries(h1))
        /\ SESSION_HOURS(symbol)[1] <= h /\ h <= SESSION_HOURS(symbol)[2]}
Ascending(seq) == \A i \in 1..(Len(seq) - 1) : seq[i] < seq[i + 1]

\* C10: get_valid_entry_hours lists, in ascending order, exactly the hours that
\* occur on at least 50% of the distinct dates and lie in the symbol's window
\* [start, end], the window of an unlisted symbol being (8, 20); the sweep runs
\* its loops on that list, and returns None, having simulated nothing, exactly
\* when the list is empty.
C10_ValidHours ==
    sweep.pc # "off" =>
      LET V == ValidHourSet(sweep.h1, sweep.symbol)
          hours == get_valid_entry_hours(sweep.h1, sweep.symbol)
      IN  /\ ListSet(hours) = V /\ Ascending(hours)
          /\ sweep.symbol \notin {"XAUUSD", "XAGUSD", "US500", "US100", "US30", "GER40",
                                  "UK100", "FRA40", "EU50", "SPN35", "N25", "JP225",
                                  "HK50", "AUS200"}
               => SESSION_HOURS(sweep.symbol) = <<8, 20>>
          /\ sweep.pc = "loop" => sweep.valid_hours = hours /\ V # {}
          /\ sweep.pc = "done" =>
               /\ sweep.ret.is_none <=> V = {}
               /\ sweep.ret.is_none => sweep.combos_tested = 0
               /\ ~sweep.ret.is_none => sweep.valid_hours = hours

\* a sweep of an unlisted symbol on two days, 09:00 on one and 10:00 on the
\* other: each hour is on exactly half of the dates, both are valid
C10_Witness ==
    /\ sweep.pc = "done"
    /\ sweep.symbol = "EURUSD"
    /\ Cardinality(DatesOfSeries(sweep.h1)) = 2
    /\ Cardinality(DatesWithHour(sweep.h1, 9)) = 1
    /\ Cardinality(DatesWithHour(sweep.h1, 10)) = 1
    /\ sweep.valid_hours = <<9, 10>>
    /\ ~sweep.ret.is_none


(***************************************************************************)
(* Properties of the ranking and activation on weekly_analysis             *)
(***************************************************************************)
\* the rows of the current week, and those of a pool
WeekRows == {r \in wa : r.week_start = week}
PoolOfWeek(is_stock) == PoolRows(wa, markets, is_stock, week)

\* C11: an instrument whose sweep returned None is skipped by the batch run.
\* The run raises nothing and gives the instrument no final score, no rank and
\* no active state: weekly_analysis never holds a scored, ranked row whose
\* optimal parameters are NULL.
C11_SweepNoneSkipped == \A r \in wa : ~r.opt.is_none

ConfigRows(rows, current, symbol) ==
    {r \in rows : r.symbol = symbol /\ r.week_start = effective_week_start(rows, current)}
\* the instrument is manually set inactive
PinnedOff(rows, current, symbol) ==
    \E r \in ConfigRows(rows, current, symbol) : r.is_manually_overridden /\ ~r.is_active
\* the step is the explicit clear of the instrument's override: of the
\* operations that re-rank, only the clear resets a flag
IsClearOf(symbol) ==
    /\ op' = "rank"
    /\ \E r \in ConfigRows(wa', week', symbol) : ~r.is_manually_overridden

\* C13: override persistence.  An instrument that is manually set inactive is
\* still inactive and still flagged is_manually_overridden after every
\* automatic operation (the weekly batch run, also of a later week,
\* apply-ranking, set-max-active, the clear of another instrument's override),
\* whatever its score; only the explicit clear of its own override ends this.
C13_PinStep ==
    \A i \in 1..Len(markets) :
       (/\ PinnedOff(wa, week, markets[i].symbol)
        /\ op' \in {"batch", "rank", "monday"}
        /\ ~IsClearOf(markets[i].symbol))
          => PinnedOff(wa', week', markets[i].symbol)
C13_OverridePersists == [][C13_PinStep]_vars

\* the rows a re-ranking of the pool leaves, split by the override flag
PinnedOf(pool) == {r \in pool : r.is_manually_overridden}
AutoOf(pool) == {r \in pool : ~r.is_manually_overridden}
AutoSlots(pool, max_active) ==
    LET manual_active == Cardinality({r \in PinnedOf(pool) : r.is_active})
    IN  IF max_active > manual_active THEN max_active - manual_active ELSE 0
\* the non-overridden rows are active exactly in the first slots places of
\* some descending order of their scores, and there only at or above min_score
FillsSlots(pool, slots, min_score) ==
    \E ord \in Perms(AutoOf(pool)) :
       /\ \A i \in 1..(Len(ord) - 1) : ord[i].final_score >= ord[i + 1].final_score
       /\ \A i \in 1..Len(ord) :
             ord[i].is_active <=> (i <= slots /\ ord[i].final_score >= min_score)

\* C14: _apply_ranking_for_category (apply-ranking, set-max-active, the clear of
\* an override).  The rows that are manually overridden after the operation are
\* the rows they were before it; every other row changes in is_active (and, for
\* the cleared instrument, the flag) only; and with auto_slots = max(0,
\* max_active - number of overridden active rows), the non-overridden rows of
\* the pool that are active are exactly those among the first auto_slots of
\* them in descending final_score order that have final_score >= the minimum
\* score of the settings.
C14_RerankStep ==
    op' = "rank" =>
       LET pool == PoolRows(wa', markets, FALSE, effective_week_start(wa', week'))
       IN  /\ \A r \in PinnedOf(wa') : r \in wa
           /\ \A r \in wa' : \E q \in wa :
                 r = [q EXCEPT !.is_active = r.is_active,
                               !.is_manually_overridden = r.is_manually_overridden]
           /\ Cardinality(wa') = Cardinality(wa)
           /\ FillsSlots(pool, AutoSlots(pool, settings'.max_active_markets),
                         settings'.min_final_score)
C14_AutoSlotPolicy == [][C14_RerankStep]_vars

\* a re-ranking that left a row at or above the minimum score inactive because
\* a manually activated row holds the only slot
C14_Witness ==
    /\ op = "rank"
    /\ settings.max_active_markets = 1
    /\ \E r \in PinnedOf(PoolOfWeek(FALSE)) : r.is_active
    /\ \E r \in AutoOf(PoolOfWeek(FALSE)) :
          ~r.is_active /\ r.final_score >= settings.min_final_score

\* settings.max_active_stocks or settings.max_active_markets
MaxActiveOf(is_stock) ==
    IF is_stock THEN settings.max_active_stocks ELSE settings.max_active_markets

\* C15: the weekly batch run applies the auto-slot policy.  After a batch run,
\* in each pool the number of active rows of the week that are not manually
\* overridden is at most max(0, max_active - number of manually overridden
\* active rows of the pool).
C15_BatchAutoSlots ==
    op = "batch" =>
       \A is_stock \in BOOLEAN :
          Cardinality({r \in AutoOf(PoolOfWeek(is_stock)) : r.is_active})
             <= AutoSlots(PoolOfWeek(is_stock), MaxActiveOf(is_stock))

\* two rows of one pool and one week
SamePool(a, b) ==
    /\ a.week_start = b.week_start
    /\ InCategory(markets, a.symbol, TRUE) <=> InCategory(markets, b.symbol, TRUE)

\* C16: monotonic activation.  After an automatic activation (a weekly batch
\* run or a re-ranking by _apply_ranking_for_category), of two rows of the same
\* pool and week that are not manually overridden, the one with the smaller
\* rank is active whenever the other is.
C16_MonotonicActivation ==
    op \in {"batch", "rank"} =>
       \A a \in AutoOf(wa), b \in AutoOf(wa) :
          (SamePool(a, b) /\ a.rank < b.rank /\ b.is_active) => a.is_active

\* the rule table on the trades of the last 60 days: fewer than 10 trades, the
\* base; a win rate of at least 65%, 35; a win rate below 40%, 50; else the base
AdjustedMinScore ==
    IF trades.total < 10 THEN settings.min_final_score
    ELSE IF trades.wins * 100 >= 65 * trades.total THEN 35
    ELSE IF trades.wins * 100 < 40 * trades.total THEN 50
    ELSE settings.min_final_score

\* C17: with dynamic min-score enabled, every automatic activation compares
\* final_score with the threshold after the recent-win-rate adjustment, in the
\* weekly batch run and in a re-ranking alike: after either, no row that is not
\* manually overridden is active below the adjusted threshold, and a re-ranking
\* fills the auto slots with the rows at or above the adjusted threshold.
C17_AdjustedThreshold ==
    settings.dynamic_min_score_enabled =>
       /\ op \in {"batch", "rank"} =>
             \A r \in AutoOf(wa) : r.is_active => r.final_score >= AdjustedMinScore
       /\ op = "rank" =>
             FillsSlots(PoolOfWeek(FALSE),
                        AutoSlots(PoolOfWeek(FALSE), settings.max_active_markets),
                        AdjustedMinScore)

\* C18: after any sequence of weekly batch runs for a week, re-runs in which an
\* instrument newly fails included, the stored ranks of the week's rows of each
\* pool are exactly 1..N, without gaps or duplicates, in descending
\* final_score order.
C18_RanksDense ==
    \A is_stock \in BOOLEAN :
       /\ {r.rank : r \in PoolOfWeek(is_stock)} = 1..Cardinality(PoolOfWeek(is_stock))
       /\ \A a \in PoolOfWeek(is_stock), b \in PoolOfWeek(is_stock) :
             a.rank < b.rank => a.final_score >= b.final_score

\* the rows of the instrument before the week of the call: all of them, those
\* that hold parameters, and of a set of rows the eight of the latest weeks
StoredBefore == {r \in wa : r.symbol = P.symbol /\ r.week_start < P.week_start}
WithParams(S) == {r \in S : ~r.opt.is_none}
MostRecent(S) ==
    {r \in S : Cardinality({q \in S : q.week_start > r.week_start}) < 8}
EqualTuple(S) ==
    {r \in WithParams(S) : /\ r.opt.entry_hour = P.best_params.entry_hour
                           /\ r.opt.sl_pct = P.best_params.sl_pct
                           /\ r.opt.tp_pct = P.best_params.tp_pct}
\* value (kept times 10) is matches / compared * 100 rounded to one decimal
IsRoundedShare(value, matches, compared) ==
    /\ 2 * (value * compared - 100 * 10 * matches) <= compared
    /\ 2 * (100 * 10 * matches - value * compared) <= compared

\* C19 as stated: the value is exactly the share, times 100, of the
\* instrument's most recent up-to-8 stored weeks before the current week whose
\* parameters equal this week's; in [0,100]; 100 without history.
C19_StabilityExactShare ==
    op = "stability" =>
       LET compared == MostRecent(StoredBefore)
       IN  /\ result >= 0 /\ result <= 100 * 10
           /\ IF compared = {} THEN result = 100 * 10
              ELSE result * Cardinality(compared)
                      = 100 * 10 * Cardinality(EqualTuple(compared))

\* C19: calculate_parameter_stability returns matches / compared * 100 rounded
\* to one decimal, where compared are the instrument's most recent up-to-8
\* weeks strictly before the current week that hold optimal parameters
\* (opt_entry_hour not NULL) and matches are those of them whose (entry_hour,
\* sl_pct, tp_pct) equals this week's tuple; the value is in [0,100] and is 100
\* when no such week exists.
C19_Stability ==
    op = "stability" =>
       LET compared == MostRecent(WithParams(StoredBefore))
       IN  /\ result >= 0 /\ result <= 100 * 10
           /\ IF compared = {} THEN result = 100 * 10
              ELSE IsRoundedShare(result, Cardinality(EqualTuple(compared)),
                                  Cardinality(compared))

\* nine stored weeks, the latest without parameters and the oldest the only
\* one with this week's tuple: eight weeks compared, one match, 12.5
C19_Witness ==
    /\ op = "stability"
    /\ Cardinality(StoredBefore) = 9
    /\ Cardinality(WithParams(StoredBefore)) = 8
    /\ EqualTuple(StoredBefore) = {r \in StoredBefore : r.week_start = 1}
    /\ result = 125

\* what the stability lookback of the current week reads for an instrument:
\* the parameters of the rows the query returns, newest first
LookbackOf(rows, symbol) ==
    [i \in 1..Len(StabilityRows(rows, symbol, week)) |->
        StabilityRows(rows, symbol, week)[i].opt]

\* C20: persisting a week's scores is an idempotent upsert keyed by (symbol,
\* week_start).  After any number of batch runs there is one row at most for an
\* instrument and a week, every row is a row of an instrument of the universe
\* in a week that has begun, the row of the current week is not among the rows
\* its own lookback returns, and a batch run (a first run or a re-run) leaves
\* what the lookback of its week reads as it was: a re-run reads the history
\* the first run read.
C20_OneRowPerKey ==
    /\ \A a \in wa, b \in wa :
          (a.symbol = b.symbol /\ a.week_start = b.week_start) => a = b
    /\ \A r \in wa : r.week_start \in 1..week
                     /\ \E i \in 1..Len(markets) : markets[i].symbol = r.symbol
    /\ \A i \in 1..Len(markets) :
          \A k \in 1..Len(StabilityRows(wa, markets[i].symbol, week)) :
             StabilityRows(wa, markets[i].symbol, week)[k].week_start < week
C20_RerunStep ==
    op' = "batch" =>
       /\ week' = week
       /\ {r \in wa' : r.week_start # week} = {r \in wa : r.week_start # week}
       /\ \A i \in 1..Len(markets) :
             LookbackOf(wa', markets[i].symbol) = LookbackOf(wa, markets[i].symbol)
C20_IdempotentUpsert == [](C20_OneRowPerKey) /\ [][C20_RerunStep]_vars

\* a batch run of week 2 over a row of that week that existed before the run
\* (it carries an override), with parameters of week 1 in the lookback
C20_Witness ==
    /\ op = "batch" /\ week = 2
    /\ \E r \in wa : r.symbol = "A" /\ r.week_start = 2 /\ r.is_manually_overridden
    /\ LookbackOf(wa, "A") # <<>>

(***************************************************************************)
(* Properties of calculate_backtest_score                                  *)
(***************************************************************************)
\* 6000 times the blend 0.35 * clamp(total_return, 0, 100)
\* + 0.30 * min(profit_factor / 3, 1) * 100 + 0.15 * win_rate
\* + 0.20 * max(0, 100 - 5 * max_drawdown), in whole numbers
Blend6000 ==
    21 * (IF P.results.total_return < 0 THEN 0
          ELSE IF P.results.total_return > 100 * 100 THEN 100 * 100
          ELSE P.results.total_return)
    + 600 * (IF P.results.profit_factor > 300 THEN 300 ELSE P.results.profit_factor)
    + 90 * P.results.win_rate
    + 60 * (IF P.results.max_drawdown > 2000 THEN 0 ELSE 2000 - P.results.max_drawdown)

\* C21 as stated: the score is in [0,100] and is the blend itself, multiplied by
\* stability / 100 exactly when stability < 50.
C21_ScoreExactBlend ==
    op = "score" =>
       /\ result >= 0 /\ result <= 100 * 10
       /\ IF P.stability < 500
          THEN 600 * 1000 * result = Blend6000 * P.stability
          ELSE 600 * result = Blend6000

\* C21: calculate_backtest_score returns a value in [0,100]: the blend,
\* multiplied by stability / 100 exactly when stability < 50 and left unscaled
\* when stability >= 50, rounded to one decimal.
C21_BacktestScore ==
    op = "score" =>
       /\ result >= 0 /\ result <= 100 * 10
       /\ IF P.stability < 500
          THEN /\ 600 * 1000 * result - Blend6000 * P.stability <= 300 * 1000
               /\ Blend6000 * P.stability - 600 * 1000 * result <= 300 * 1000
          ELSE /\ 600 * result - Blend6000 <= 300
               /\ Blend6000 - 600 * result <= 300

\* a full blend of 100 cut to 49.9 by a stability of 49.9, and left at 100 by 50
C21_Witness ==
    /\ op = "score"
    /\ Blend6000 = 100 * 6000
    /\ P.stability = 499
    /\ result = 499

(***************************************************************************)
(* Properties of the batch script                                          *)
(***************************************************************************)
\* the instrument has no bars, fewer than 20 daily bars, or its analysis raises
Errs(i) == P[i].raises \/ P[i].daily < 20
ErrCount == Cardinality({i \in 1..Len(markets) : Errs(i)})

\* C22: in a batch run an instrument with no bars, with fewer than 20 daily
\* bars or whose analysis raises is recorded as an error entry of its own, and
\* the run goes on with the remaining instruments: the results hold one entry
\* for every instrument, in order, an error entry exactly for the failing
\* ones, and every instrument that did not fail is stored; the script exits
\* with a non-zero status exactly when more than half of the instruments
\* errored.
C22_ErrorsDoNotAbort ==
    /\ op \in {"phase2", "exited"} =>
          /\ Len(result.results) = Len(markets)
          /\ \A i \in 1..Len(markets) :
                /\ result.results[i].symbol = markets[i].symbol
                /\ (result.results[i].error # "") <=> Errs(i)
                /\ ~Errs(i) <=> \E r \in wa : r.symbol = markets[i].symbol
    /\ op = "exited" =>
          /\ result.exit \in {0, 1}
          /\ result.exit # 0 <=> 2 * ErrCount > Len(markets)

\* four instruments: the first, without bars, and the third, which raises,
\* fail; the second and the fourth are analysed; half failed, exit status 0
C22_Witness ==
    /\ op = "exited" /\ Len(markets) = 4
    /\ P[1].daily = 0 /\ ~P[1].raises
    /\ P[3].raises
    /\ ~Errs(2) /\ ~Errs(4)
    /\ result.exit = 0


(***************************************************************************)
(* GET /config and POST /override                                          *)
(***************************************************************************)
EffectiveRows(symbol) ==
    {r \in wa : r.symbol = symbol /\ r.week_start = effective_week_start(wa, week)}

DefaultReply(symbol) ==
    [status |-> 200, symbol |-> symbol, active |-> FALSE, entry_hour |-> 0,
     entry_minute |-> 0, sl_percent |-> FInt(0), tp_percent |-> FInt(0),
     week_start |-> effective_week_start(wa, week)]

\* C23: GET /config/{symbol} for a known instrument without an analysis row in
\* the effective week answers 200 with active = false and entry hour, entry
\* minute, stop-loss and take-profit all zero; it never fails.
C23_DefaultConfig ==
    (op = "get" /\ IsKnown(markets, result.request.symbol)
                /\ EffectiveRows(result.request.symbol) = {})
        => result.response = DefaultReply(result.request.symbol)

\* a GET for an instrument that failed in the batch run of the effective week
\* while it has an active row in an older week
C23_Witness ==
    /\ op = "get"
    /\ IsKnown(markets, result.request.symbol)
    /\ EffectiveRows(result.request.symbol) = {}
    /\ \E r \in wa : r.week_start = effective_week_start(wa, week)
    /\ \E r \in wa : r.symbol = result.request.symbol /\ r.is_active


\* C29: after POST /override/{symbol} with active = v answers 200 for a known
\* symbol, the effective-week row of the symbol has is_manually_overridden =
\* true and is_active = v, and the response and a following GET /config report
\* active = v.
C29_OverridePins ==
    (op = "override" /\ result.response.status = 200)
        => /\ \E r \in EffectiveRows(result.request.symbol) :
                r.is_manually_overridden /\ r.is_active = result.request.active
           /\ result.response.active = result.request.active
           /\ get_config(wa, markets, week, result.request.symbol).active
                = result.request.active


(***************************************************************************)
(* compute_technical_score                                                 *)
(***************************************************************************)
\* C24: each of the six sub-scores is 50 when a metric it depends on is
\* missing, and the final score lies in [0, 100].
C24_NeutralDefaults ==
    op = "tech" =>
        /\ P.up_day_win_rate.is_none => result.scores.win_rate = FInt(50)
        /\ (P.avg_daily_growth.is_none \/ P.avg_daily_loss.is_none)
               => result.scores.growth_loss = FInt(50)
        /\ (P.current_price.is_none
               \/ (P.sma_20.is_none /\ P.sma_50.is_none /\ P.sma_200.is_none))
               => result.scores.trend = FInt(50)
        /\ P.rsi_14.is_none => result.scores.rsi = FInt(50)
        /\ (P.change_1w.is_none /\ P.change_1m.is_none)
               => result.scores.momentum = FInt(50)
        /\ (P.atr_14.is_none \/ P.current_price.is_none)
               => result.scores.volatility = FInt(50)
        /\ result.total >= 0 /\ result.total <= 100 * 10


(***************************************************************************)
(* simulate_trades: accounting, win and loss, order of entries and exits   *)
(***************************************************************************)
CloseKinds ==
    {"gap_sl", "gap_tp", "sl", "tp", "amb_sl", "amb_tp",
     "entry_sl", "entry_tp", "entry_amb_sl", "entry_amb_tp", "end"}

\* C25: trade accounting.  At return wins + losses = total_trades = the number
\* of positions opened: every opened position is closed exactly once, by a
\* stop, a target, a gap or the force-close at the end of the data, and nothing
\* is closed that was not open; at most one position is opened on a calendar
\* date.
C25_AccountingState ==
    /\ st.wins + st.losses = Len(st.log)
    /\ Len(st.log) <= st.opened
    /\ \A i \in 1..Len(st.log) : st.log[i].how \in CloseKinds
    /\ \A i, k \in 1..Len(st.log) : i < k => st.log[i].entry_bar < st.log[k].entry_bar
    /\ (pc = "done" /\ j > 0)
          => /\ result.wins + result.losses = result.total_trades
             /\ result.total_trades = st.opened
             /\ Len(st.log) = st.opened
             /\ ~st.in_position
C25_AccountingStep ==
    /\ IsLoopStep =>
          /\ st'.opened - st.opened \in {0, 1}
          /\ st'.opened > st.opened
                => /\ DateOf(bar'.t) \notin st.entered_dates
                   /\ DateOf(bar'.t) \in st'.entered_dates
          /\ st.entered_dates \subseteq st'.entered_dates
          /\ Len(st'.log) - Len(st.log)
                <= (IF st.in_position THEN 1 ELSE 0) + (st'.opened - st.opened)
    /\ IsReturnStep =>
          /\ st'.opened = st.opened
          /\ Len(st'.log) - Len(st.log) = (IF st.in_position THEN 1 ELSE 0)
C26_WinLossSign ==
    /\ \A i \in 1..Len(st.log) :
          IF st.log[i].win THEN st.log[i].pnl.n >= 0 ELSE st.log[i].pnl.n < 0
    /\ st.gross_profit.s >= 0
    /\ pc = "done" => result.profit_factor >= 0


IntrabarKinds == {"sl", "tp", "amb_sl", "amb_tp"}

\* C27: no position is opened at the open of a bar inside which the previous
\* position was closed by a touch of its stop or target: every later entry is
\* on a later bar than such an exit, so two positions never overlap in time.
C27_NoEntryBeforeExit ==
    \A i \in 1..Len(st.log) :
        st.log[i].how \in IntrabarKinds
            => /\ \A k \in 1..Len(st.log) :
                     k > i => st.log[k].entry_bar > st.log[i].exit_bar
               /\ (st.in_position /\ i = Len(st.log))
                     => st.entry_bar_idx > st.log[i].exit_bar


(***************************************************************************)
(* Override beside a re-ranking and a batch run                            *)
(***************************************************************************)
\* C28: a manual override that runs concurrently with a re-ranking or a batch
\* upsert is never lost: once all of them have finished, the overridden row has
\* is_manually_overridden = true and is_active equal to the value set by hand.
C28_OverrideNotLost ==
    (pc = "done" /\ result.todo = <<>> /\ result.override = "done")
        => \A r \in wa :
              (r.symbol = P.symbol /\ r.week_start = effective_week_start(wa, week))
                  => r.is_manually_overridden /\ r.is_active = P.active


(***************************************************************************)
(* Independence of the pools                                               *)
(***************************************************************************)
\* a step changes nothing but is_active, and that only on rows of the pools
\* given, of the effective week, that are not overridden
OnlyActivationOf(pools) ==
    /\ \A q \in wa :
          (\/ q.week_start # effective_week_start(wa, week)
           \/ q.is_manually_overridden
           \/ \A is_stock \in pools : ~InCategory(markets, q.symbol, is_stock))
             => q \in wa'
    /\ \A r \in wa' : \E q \in wa : r = [q EXCEPT !.is_active = r.is_active]
    /\ Cardinality(wa') = Cardinality(wa)

\* the same for the clear of the override of symbol, which resets the flag of
\* the symbol's row before its pool is re-ranked
OnlyActivationAfterClear(symbol) ==
    /\ \A q \in wa :
          (\/ q.week_start # effective_week_start(wa, week)
           \/ (q.is_manually_overridden /\ q.symbol # symbol)
           \/ ~(InCategory(markets, q.symbol, TRUE) <=> InCategory(markets, symbol, TRUE)))
             => q \in wa'
    /\ \A r \in wa' : \E q \in wa :
          r = [q EXCEPT !.is_active = r.is_active,
                        !.is_manually_overridden =
                            IF q.symbol = symbol
                               /\ q.week_start = effective_week_start(wa, week)
                            THEN FALSE ELSE @]
    /\ Cardinality(wa') = Cardinality(wa)

\* C30: a re-ranking of one pool changes only the is_active value of the rows
\* of that pool in the effective week that are not overridden; the rows of the
\* other pool and of other weeks, and rank, score, optimal parameters and
\* is_manually_overridden of every row stay as they are.
C30_RerankFrameStep ==
    /\ SetMaxActiveWeeks => OnlyActivationOf({TRUE})
    /\ ApplyRanking => OnlyActivationOf({TRUE, FALSE})
    /\ OverrideClear =>
          \E i \in 1..Len(markets) : OnlyActivationAfterClear(markets[i].symbol)
C30_PoolsIndependent == [][C30_RerankFrameStep]_vars

\* after a re-ranking in week 2: the stock is active by its rank, the index row
\* of the same week is pinned inactive at a score above the minimum, and the
\* stock's row of week 1 is still pinned inactive
C30_Witness ==
    /\ op = "rank"
    /\ week = 2
    /\ \E r \in wa : /\ r.symbol = "S" /\ r.week_start = 2
                     /\ ~r.is_manually_overridden /\ r.is_active
    /\ \E r \in wa : /\ r.symbol = "A" /\ r.week_start = 2
                     /\ r.is_manually_overridden /\ ~r.is_active
                     /\ r.final_score >= settings.min_final_score
    /\ \E r \in wa : /\ r.symbol = "S" /\ r.week_start = 1
                     /\ r.is_manually_overridden /\ ~r.is_active

====
